---- MODULE Spec2Model ----
(***************************************************************************)
(* Model of gisnav's BaseNode (src/gisnav/nodes/base_node.py): the map     *)
(* update timer, the image callback, and the two multiprocessing pools     *)
(* whose completion callbacks run on the pools' result-handler threads.    *)
(*                                                                         *)
(* Threads:                                                                *)
(*   main          the single-threaded executor: timer ticks, image        *)
(*                 frames and telemetry updates, one handler at a time     *)
(*   wms handler   result-handler thread of _wms_pool                      *)
(*   pose handler  result-handler thread of _pose_estimator_pool           *)
(* A handler thread runs callback(result) and only then marks the          *)
(* AsyncResult ready; an exception escaping a callback ends the thread,    *)
(* and the result (and every later one of that pool) is never ready.       *)
(***************************************************************************)
EXTENDS Integers, Sequences, FiniteSets, TLC

\* ------------------------------------------------------------------ bounds
MaxWmsJobs == 2
MaxPoseJobs == 2

\* ------------------------------------------------------- program constants
ROS_D_STATIC_CAMERA == FALSE
ROS_D_MAP_UPDATE_GIMBAL_PROJECTION == TRUE
ROS_D_MISC_ATTITUDE_DEVIATION_THRESHOLD == 10
ROS_D_MISC_MAX_PITCH == 30
ROS_D_MISC_MIN_MATCH_ALTITUDE == 80
ROS_D_MAP_UPDATE_MAX_PITCH == 30
ROS_D_MAP_UPDATE_MAX_MAP_RADIUS == 400
\* 0.85, as hundredths
ROS_D_MAP_UPDATE_UPDATE_MAP_AREA_THRESHOLD == 85
ROS_D_MAP_UPDATE_UPDATE_DELAY == 1

\* ------------------------------------------------------------ value domains
None == [tag |-> "None"]

Some(x) == [val |-> x]

Dim(h, w) == [height |-> h, width |-> w]

\* CameraInfo as the bridge exposes it. hfov10 is the horizontal field of
\* view 2*atan(width/(2*fx)) in tenths of a radian.
CameraData(h, w, f, hf) == [dim |-> Dim(h, w), fx |-> f, hfov10 |-> hf]

\* Attitudes in whole degrees. A gimbal pitch of -90 is nadir.
Attitude(r, p, y) == [roll |-> r, pitch |-> p, yaw |-> y]

GimbalAttitudes == {Attitude(0, -90, 0), Attitude(0, -59, 0)}

VehicleAttitudes == {Attitude(0, 0, 0)}

Altitudes == {100}

GeoPoint(px, py) == [x |-> px, y |-> py]

\* With a map radius of 150 m, regions centred 45 m apart overlap by exactly
\* 0.85 of their area, regions 60 m and 105 m apart by less
Positions == {GeoPoint(0, 0), GeoPoint(45, 0), GeoPoint(105, 0)}

GeoSquare(c, r) == [center |-> c, radius |-> r]

Opt(S) == {None} \cup S

BridgeFields == {"camera_data", "gimbal_set_attitude", "attitude",
                 "altitude_agl", "global_position", "synchronized_time"}

\* The values each telemetry field of the bridge may take
Telemetry(cameras, gimbals, attitudes, altitudes, positions) ==
    [camera_data |-> Opt(cameras),
     gimbal_set_attitude |-> Opt(gimbals),
     attitude |-> Opt(attitudes),
     altitude_agl |-> Opt({Some(a) : a \in altitudes}),
     global_position |-> Opt(positions),
     synchronized_time |-> Opt({Some(1)})]

\* One camera, a gimbal pointing at nadir or 31 degrees off it, a vehicle
\* that moves between three places
CoreTelemetry ==
    Telemetry({CameraData(3, 4, 4, 10)}, GimbalAttitudes, VehicleAttitudes,
              Altitudes, Positions)

\* Telemetry for the map update path: a camera whose diagonal is not a whole
\* number and a 640 x 480 camera with a horizontal field of view of 1.0 rad,
\* the gimbal at nadir, exactly at and one degree beyond the map update
\* pitch limit, a low and a high altitude, one place
MapUpdateTelemetry ==
    Telemetry({CameraData(2, 3, 3, 9), CameraData(480, 640, 586, 10)},
              {Attitude(0, -90, 0), Attitude(0, -60, 0), Attitude(0, -59, 0)},
              VehicleAttitudes, {100, 1000}, {GeoPoint(0, 0)})

\* Telemetry around the limits of _should_estimate: the gimbal exactly at
\* and one degree beyond the matching pitch limit, an altitude exactly at and
\* one metre below the minimum match altitude, one place
EstimateTelemetry ==
    Telemetry({CameraData(3, 4, 4, 10)},
              {Attitude(0, -60, 0), Attitude(0, -59, 0)},
              VehicleAttitudes, {79, 80}, {GeoPoint(0, 0)})

\* Telemetry of a vehicle on the ground: an altitude above ground of zero,
\* of ten metres below zero and of 100 m, the gimbal at nadir or tilted
GroundTelemetry ==
    Telemetry({CameraData(3, 4, 4, 10)},
              {Attitude(0, -90, 0), Attitude(0, -60, 0)},
              VehicleAttitudes, {-10, 0, 100}, {GeoPoint(0, 0)})

\* Telemetry of a short flight: one camera, the gimbal at nadir, one place
LifecycleTelemetry ==
    Telemetry({CameraData(3, 4, 4, 10)}, {Attitude(0, -90, 0)},
              VehicleAttitudes, Altitudes, {GeoPoint(0, 0)})

\* Values of the ROS parameter map_update.update_delay
UpdateDelays == {-1, 0, 1}

\* Telemetry of a vehicle whose camera is fixed to its body: no gimbal
\* messages, the vehicle level or pitched 40 degrees
StaticTelemetry ==
    Telemetry({CameraData(3, 4, 4, 10)}, {},
              {Attitude(0, 0, 0), Attitude(0, 40, 0)}, Altitudes,
              {GeoPoint(0, 0)})

\* ------------------------------------------------------------- arithmetic
Min(a, b) == IF a <= b THEN a ELSE b

Max(a, b) == IF a >= b THEN a ELSE b

Abs(a) == IF a < 0 THEN -a ELSE a

RECURSIVE CeilSqrtBetween(_, _, _)
\* The smallest d in lo..hi with d * d >= n, where hi * hi >= n
CeilSqrtBetween(n, lo, hi) ==
    IF lo = hi THEN lo
    ELSE LET mid == (lo + hi) \div 2
         IN  IF mid * mid >= n THEN CeilSqrtBetween(n, lo, mid)
             ELSE CeilSqrtBetween(n, mid + 1, hi)

CeilSqrt_Floor(n) == CeilSqrtBetween(n + 1, 0, Min(n + 1, 46340)) - 1

\* math.ceil(math.sqrt(n)) for a non-negative integer n below 2^31
CeilSqrt(n) == CeilSqrtBetween(n, 0, Min(n, 46340))

RECURSIVE GCD(_, _)
GCD(a, b) == IF b = 0 THEN a ELSE GCD(b, a % b)

\* Rationals as <<numerator, denominator>> in lowest terms, denominator > 0
Rat(n, d) == LET g == GCD(n, d) IN <<n \div g, d \div g>>

RatLess(p, q) == p[1] * q[2] < q[1] * p[2]

RatMin(p, q) == IF RatLess(q, p) THEN q ELSE p

\* ---------------------------------------------------------------- geometry
\* GeoSquare.area and GeoSquare.intersection(...).area (gisnav.geo)
Area(sq) == (2 * sq.radius) * (2 * sq.radius)

Overlap1D(c1, r1, c2, r2) ==
    Max(0, Min(c1 + r1, c2 + r2) - Max(c1 - r1, c2 - r2))

IntersectionArea(a, b) ==
    Overlap1D(a.center.x, a.radius, b.center.x, b.radius)
    * Overlap1D(a.center.y, a.radius, b.center.y, b.radius)

VARIABLES
    static_camera,          \* ROS parameter misc.static_camera (read only)
    gimbal_projection,      \* ROS parameter map_update.gimbal_projection
    bridge,                 \* telemetry exposed by the autopilot bridge
    wms_query,              \* _wms_query
    wms_pool,               \* _wms_pool and its result-handler thread
    map_data,               \* _map_data
    pose_estimation_query,  \* _pose_estimation_query
    pose_estimator_pool,    \* _pose_estimator_pool and its handler thread
    map_input_data,         \* _map_input_data
    map_input_data_prev,    \* _map_input_data_prev
    fixed_camera_prev,      \* _fixed_camera_prev
    pose_guess,             \* _pose_guess
    published,              \* arguments of the publish() calls, in order
    mainPc,                 \* position of the executor thread
    mainLocal,              \* locals of the executor's current handler
    poseCb,                 \* position and locals of the pose callback
    wmsOutcome,             \* how the last map-fetch completion ended
    poseOutcome,            \* how the last pose-estimation completion ended
    lifecycle,              \* map_update.update_delay, _map_update_timer,
                            \* whether the pools were terminated and the
                            \* bridge is subscribed
    matmul                  \* operands and result of a Pose.__matmul__ call

vars == <<static_camera, gimbal_projection, bridge, wms_query, wms_pool,
          map_data, pose_estimation_query, pose_estimator_pool,
          map_input_data, map_input_data_prev, fixed_camera_prev,
          pose_guess, published, mainPc, mainLocal, poseCb, wmsOutcome,
          poseOutcome, lifecycle, matmul>>

\* A pool: tasks submitted and not yet resolved (oldest first), the jobs
\* whose AsyncResult is ready, whether the result-handler thread is alive,
\* and the number of apply_async calls so far. A task holds the arguments
\* of the call and, for reference, the state it was dispatched from.
EmptyPool == [tasks |-> <<>>, ready |-> {}, alive |-> TRUE, count |-> 0]

Ready_Always(p, j) == TRUE

\* AsyncResult.ready() of job j of pool p
Ready(p, j) == j \in p.ready


\* ---------------------------------------------------------------- lifecycle
SetupMapUpdateTimer_Unchecked(timer_period) == "active"

\* BaseNode._setup_map_update_timer: the state of the timer it returns, or
\* "none" when it raises
SetupMapUpdateTimer(timer_period) ==
    IF ~(0 <= timer_period) THEN "none" ELSE "active"

\* The node after BaseNode.__init__ with map_update.update_delay set to
\* update_delay: when _setup_map_update_timer raises, the constructor is
\* left before the bridge is created and subscribed
Constructed(update_delay) ==
    LET timer == SetupMapUpdateTimer(update_delay)
    IN  [update_delay |-> update_delay,
         map_update_timer |-> timer,
         pose_pool_terminated |-> FALSE,
         wms_pool_terminated |-> FALSE,
         subscribed |-> timer # "none"]

TimerFires_Always == TRUE

\* The executor calls _map_update_timer_callback while the timer exists and
\* was not destroyed
TimerFires == lifecycle.map_update_timer = "active"

\* The bridge delivers messages while it is subscribed
Subscribed == lifecycle.subscribed

\* ------------------------------------------------------ computed properties
\* BaseNode._img_dim
ImgDim == IF bridge.camera_data # None THEN bridge.camera_data.dim ELSE None

\* BaseNode._map_size_with_padding
MapSizeWithPadding ==
    IF ImgDim = None THEN None
    ELSE LET diagonal == CeilSqrt(ImgDim.width * ImgDim.width
                                  + ImgDim.height * ImgDim.height)
         IN  Dim(diagonal, diagonal)

\* Attitude(...).to_esd().r of a vehicle attitude turned -90 degrees about
\* the pitch axis (static nadir-facing camera)
StaticCameraRotation(att) == [pitch |-> att.pitch - 90, yaw |-> att.yaw]

\* Attitude.to_esd().r of the gimbal set attitude
GimbalRotation(att) == [pitch |-> att.pitch, yaw |-> att.yaw]

\* BaseNode._r_guess
RGuess ==
    IF bridge.gimbal_set_attitude = None
    THEN IF ~static_camera THEN None
         ELSE IF bridge.attitude # None
              THEN StaticCameraRotation(bridge.attitude)
              ELSE None
    ELSE GimbalRotation(bridge.gimbal_set_attitude)

WmsResultsPending_Never == FALSE

\* BaseNode._wms_results_pending
WmsResultsPending ==
    IF wms_query # None THEN ~Ready(wms_pool, wms_query.result) ELSE FALSE

VehiclePosition_WithoutAltitude ==
    IF bridge.global_position # None
    THEN IF bridge.attitude = None THEN None
         ELSE [xy |-> bridge.global_position,
               z_ground |-> IF bridge.altitude_agl = None THEN 100
                            ELSE bridge.altitude_agl.val,
               attitude |-> bridge.attitude]
    ELSE None

\* BaseNode._vehicle_position
VehiclePosition ==
    IF bridge.global_position # None
    THEN IF bridge.altitude_agl = None THEN None
         ELSE IF bridge.attitude = None THEN None
         ELSE [xy |-> bridge.global_position,
               z_ground |-> bridge.altitude_agl.val,
               attitude |-> bridge.attitude]
    ELSE None

\* ------------------------------------------------------------ shared logic
\* pitch > max_pitch where pitch is in radians (given here in degrees) and
\* max_pitch is a plain number: deg * pi / 180 > max_pitch, pi ~ 355/113
RadiansExceed(deg, max_pitch) == deg * 355 > max_pitch * 180 * 113

CameraRollOrPitchTooHigh_UnknownPasses(max_pitch) ==
    IF bridge.gimbal_set_attitude # None /\ ~static_camera
    THEN (bridge.gimbal_set_attitude.pitch + 90) > max_pitch
    ELSE IF ~static_camera THEN FALSE
         ELSE IF bridge.attitude = None THEN FALSE
         ELSE RadiansExceed(Max(bridge.attitude.pitch, bridge.attitude.roll),
                            max_pitch)

\* BaseNode._camera_roll_or_pitch_too_high
CameraRollOrPitchTooHigh(max_pitch) ==
    IF bridge.gimbal_set_attitude # None /\ ~static_camera
    THEN (bridge.gimbal_set_attitude.pitch + 90) > max_pitch
    ELSE IF ~static_camera THEN TRUE
         ELSE IF bridge.attitude = None THEN TRUE
         ELSE RadiansExceed(Max(bridge.attitude.pitch, bridge.attitude.roll),
                            max_pitch)

\* -------------------------------------------------------------- map updates
\* Ground offset of the projected optical axis for a camera pitch from nadir
FovShift(pitch_from_nadir, altitude) ==
    IF pitch_from_nadir = 0 THEN 0 ELSE (60 * altitude) \div 100

\* BaseNode._guess_fov_center
GuessFovCenter(origin) ==
    LET att == IF bridge.gimbal_set_attitude = None
               THEN IF ~static_camera THEN None
                    ELSE IF bridge.attitude # None
                         THEN StaticCameraRotation(bridge.attitude)
                         ELSE None
               ELSE GimbalRotation(bridge.gimbal_set_attitude)
    IN  IF att = None THEN None
        ELSE IF bridge.camera_data = None THEN None
        ELSE IF bridge.altitude_agl = None THEN None
        ELSE IF bridge.synchronized_time = None THEN None
        ELSE GeoPoint(origin.xy.x + FovShift(att.pitch + 90, origin.z_ground),
                      origin.xy.y)

GetDynamicMapRadius_Unclamped(altitude) ==
    IF bridge.camera_data # None
    THEN (15 * bridge.camera_data.hfov10 * altitude) \div 100
    ELSE 3 * altitude

\* BaseNode._get_dynamic_map_radius
GetDynamicMapRadius(altitude) ==
    LET max_map_radius == ROS_D_MAP_UPDATE_MAX_MAP_RADIUS
        map_radius == IF bridge.camera_data # None
                      THEN (15 * bridge.camera_data.hfov10 * altitude) \div 100
                      ELSE 3 * altitude
    IN  IF map_radius > max_map_radius THEN max_map_radius ELSE map_radius

RatioTooClose_OrEqual(ratio, area_threshold) ==
    ~RatLess(ratio, Rat(area_threshold, 100))

\* The comparison at the end of BaseNode._previous_map_too_close
RatioTooClose(ratio, area_threshold) ==
    RatLess(Rat(area_threshold, 100), ratio)

\* A division by bbox.area or previous_map_data.bbox.area in
\* BaseNode._previous_map_too_close has a zero divisor
PreviousMapAreaIsZero(bbox) ==
    /\ map_data # None
    /\ (Area(bbox) = 0 \/ Area(map_data.bbox) = 0)

\* BaseNode._previous_map_too_close when it returns; a quotient by a zero
\* area that does not raise is not a number, and ratio > area_threshold is
\* false for it
PreviousMapTooClose(bbox) ==
    IF map_data # None /\ ~PreviousMapAreaIsZero(bbox)
    THEN LET previous_map_data == map_data
             intersection1 == Rat(IntersectionArea(bbox, previous_map_data.bbox),
                                 Area(bbox))
             intersection2 == Rat(IntersectionArea(previous_map_data.bbox, bbox),
                                 Area(previous_map_data.bbox))
             ratio == RatMin(intersection1, intersection2)
         IN  RatioTooClose(ratio, ROS_D_MAP_UPDATE_UPDATE_MAP_AREA_THRESHOLD)
    ELSE FALSE

ShouldRequestNewMap_BlockedByPose(bbox) ==
    IF WmsResultsPending THEN FALSE
    ELSE IF pose_estimation_query # None
            /\ ~Ready(pose_estimator_pool, pose_estimation_query.result)
         THEN FALSE
    ELSE IF PreviousMapTooClose(bbox) THEN FALSE
    ELSE IF gimbal_projection
            /\ CameraRollOrPitchTooHigh(ROS_D_MAP_UPDATE_MAX_PITCH)
         THEN FALSE
    ELSE TRUE

\* BaseNode._should_request_new_map
ShouldRequestNewMap(bbox) ==
    IF WmsResultsPending THEN FALSE
    ELSE IF PreviousMapTooClose(bbox) THEN FALSE
    ELSE IF gimbal_projection
            /\ CameraRollOrPitchTooHigh(ROS_D_MAP_UPDATE_MAX_PITCH)
         THEN FALSE
    ELSE TRUE

MapCandidate_IgnoresMode ==
    LET projected_center == GuessFovCenter(VehiclePosition)
        map_radius == GetDynamicMapRadius(VehiclePosition.z_ground)
    IN  GeoSquare(IF projected_center # None THEN projected_center
                  ELSE VehiclePosition.xy, map_radius)

\* The candidate region a timer tick builds from the current telemetry
MapCandidate ==
    LET projected_center == IF gimbal_projection
                            THEN GuessFovCenter(VehiclePosition)
                            ELSE None
        map_radius == GetDynamicMapRadius(VehiclePosition.z_ground)
    IN  GeoSquare(IF projected_center # None THEN projected_center
                  ELSE VehiclePosition.xy, map_radius)

RequestNewMap_WithoutSize(bbox) ==
    /\ wms_pool.count < MaxWmsJobs
    /\ LET job == wms_pool.count + 1
       IN  /\ wms_pool' = [wms_pool EXCEPT
                  !.count = job,
                  !.tasks = Append(@, [job |-> job, bounds |-> bbox,
                                       size |-> MapSizeWithPadding,
                                       map_before |-> map_data])]
           /\ mainPc' = "wms_query"
           /\ mainLocal' = [result |-> job, geobbox |-> bbox]

\* BaseNode._request_new_map up to and including apply_async: the task is
\* handed to the pool, the AsyncWMSQuery is not yet stored
RequestNewMap(bbox) ==
    IF MapSizeWithPadding = None
    THEN UNCHANGED <<wms_pool, mainPc, mainLocal>>
    ELSE IF lifecycle.wms_pool_terminated
    THEN /\ mainPc' = "raised"
         /\ UNCHANGED <<wms_pool, mainLocal>>
    ELSE /\ wms_pool.count < MaxWmsJobs
         /\ LET job == wms_pool.count + 1
            IN  /\ wms_pool' = [wms_pool EXCEPT
                       !.count = job,
                       !.tasks = Append(@, [job |-> job, bounds |-> bbox,
                                            size |-> MapSizeWithPadding,
                                            map_before |-> map_data])]
                /\ mainPc' = "wms_query"
                /\ mainLocal' = [result |-> job, geobbox |-> bbox]

\* BaseNode._map_update_timer_callback
MapUpdateTimerCallback ==
    /\ mainPc = "idle"
    /\ TimerFires
    /\ IF VehiclePosition = None
       THEN UNCHANGED <<wms_pool, mainPc, mainLocal>>
       ELSE \/ /\ ~WmsResultsPending
               /\ PreviousMapAreaIsZero(MapCandidate)
               /\ mainPc' = "raised"
               /\ UNCHANGED <<wms_pool, mainLocal>>
            \/ IF ShouldRequestNewMap(MapCandidate)
               THEN RequestNewMap(MapCandidate)
               ELSE UNCHANGED <<wms_pool, mainPc, mainLocal>>
    /\ UNCHANGED <<matmul, lifecycle, static_camera, gimbal_projection, bridge, wms_query,
                   map_data, pose_estimation_query, pose_estimator_pool,
                   map_input_data, map_input_data_prev, fixed_camera_prev,
                   pose_guess, published, poseCb, wmsOutcome, poseOutcome>>

\* The assignment self._wms_query = AsyncWMSQuery(...) that ends
\* BaseNode._request_new_map
StoreWmsQuery ==
    /\ mainPc = "wms_query"
    /\ wms_query' = mainLocal
    /\ mainPc' = "idle"
    /\ mainLocal' = None
    /\ UNCHANGED <<matmul, lifecycle, static_camera, gimbal_projection, bridge, wms_pool,
                   map_data, pose_estimation_query, pose_estimator_pool,
                   map_input_data, map_input_data_prev, fixed_camera_prev,
                   pose_guess, published, poseCb, wmsOutcome, poseOutcome>>

\* ------------------------------------------------------ WMS worker callbacks
\* What WMSClient.worker returns for a task: a raster of the requested size
\* for the requested bounds, and an elevation raster of the same size, of
\* another size, or none
WmsResults(task) ==
    {[map |-> [job |-> task.job, bounds |-> task.bounds, dim |-> task.size],
      elevation |-> e] :
         e \in {None, [dim |-> task.size], [dim |-> Dim(1, 1)]}}

WmsPoolWorkerErrorCallback_Clears == None

\* BaseNode._wms_pool_worker_error_callback: logs, stores nothing
WmsPoolWorkerErrorCallback == map_data

\* The MapData built by BaseNode._wms_pool_worker_callback
NewMapData(result) ==
    [bbox |-> wms_query.geobbox, image |-> result.map,
     elevation |-> result.elevation]

WmsCallbackReturns_Unchecked(result) == wms_query # None

\* The assertions of BaseNode._wms_pool_worker_callback and its read of
\* self._wms_query: FALSE when the callback raises
WmsCallbackReturns(result) ==
    /\ result.elevation # None => result.elevation.dim = result.map.dim
    /\ result.map.dim = MapSizeWithPadding
    /\ wms_query # None

PoseQueryAfterMapFetch_InPlace(new_map_data) ==
    IF pose_estimation_query # None
       /\ pose_estimation_query.image_pair.ref.map_data = map_data
    THEN [pose_estimation_query EXCEPT
              !.image_pair.ref.map_data = new_map_data]
    ELSE pose_estimation_query

\* self._map_data = map_data in BaseNode._wms_pool_worker_callback binds
\* the attribute to a new MapData object: the MapData that the
\* ContextualMapData of a recorded pose query refers to is left as it was
PoseQueryAfterMapFetch(new_map_data) == pose_estimation_query

\* The result-handler thread of _wms_pool takes the oldest result: it runs
\* the callback (or the error callback) and then sets the result ready
WmsPoolWorker ==
    /\ ~lifecycle.wms_pool_terminated
    /\ wms_pool.alive
    /\ wms_pool.tasks # <<>>
    /\ LET task == Head(wms_pool.tasks)
           done == [wms_pool EXCEPT !.tasks = Tail(@),
                                    !.ready = @ \cup {task.job}]
       IN  \/ /\ map_data' = WmsPoolWorkerErrorCallback
              /\ wms_pool' = done
              /\ wmsOutcome' = [job |-> task.job, kind |-> "error"]
           \/ \E result \in WmsResults(task) :
                IF WmsCallbackReturns(result)
                THEN /\ map_data' = NewMapData(result)
                     /\ wms_pool' = done
                     /\ wmsOutcome' = [job |-> task.job, kind |-> "stored"]
                ELSE /\ map_data' = map_data
                     /\ wms_pool' = [wms_pool EXCEPT !.alive = FALSE]
                     /\ wmsOutcome' = [job |-> task.job, kind |-> "raised"]
    /\ pose_estimation_query' = PoseQueryAfterMapFetch(map_data')
    /\ UNCHANGED <<matmul, lifecycle, static_camera, gimbal_projection, bridge, wms_query,
                   pose_estimator_pool,
                   map_input_data, map_input_data_prev, fixed_camera_prev,
                   pose_guess, published, mainPc, mainLocal, poseCb,
                   poseOutcome>>

\* ---------------------------------------------------------- pose estimation
\* What PoseEstimator.worker hands back: none, or a rotation and translation.
\* finite: the values make a Pose; fov: a field of view can be projected
\* from them, so that a FixedCamera can be built. With the gimbal at nadir
\* (-90) the rotations lie 10 and 11 degrees from the expected rotation.
PoseResult(pitch, finite, fov) ==
    [r |-> [pitch |-> pitch, yaw |-> 0], finite |-> finite, fov |-> fov]

PoseResults ==
    {None, PoseResult(-80, FALSE, TRUE), PoseResult(-80, TRUE, FALSE),
     PoseResult(-80, TRUE, TRUE), PoseResult(-79, TRUE, TRUE)}

\* Pose(*result) raises DataValueError
PoseRaises(result) == ~result.finite

\* Pose(*result)
Pose(result) == [r |-> result.r, fov |-> result.fov]

\* FixedCamera(pose=..., image_pair=..., ...) raises DataValueError
FixedCameraRaises(pose, image_pair) == ~pose.fov

\* FixedCamera(pose=..., image_pair=..., ground_elevation=..., timestamp=...)
FixedCamera(pose, image_pair, input_data) ==
    [pose |-> pose, image_pair |-> image_pair,
     elevation_from |-> input_data.job, timestamp |-> image_pair.qry.timestamp]

\* Rotation.magnitude(r_estimate * r_guess.inv()), in degrees
Magnitude(r_estimate, r_guess) ==
    Abs(r_estimate.pitch - r_guess.pitch) + Abs(r_estimate.yaw - r_guess.yaw)

\* r_guess *= Rotation.from_euler('xyz', [0, 0, camera_yaw])
ComposeYaw(r, camera_yaw) == [pitch |-> r.pitch, yaw |-> r.yaw + camera_yaw]

DeviationTooHigh_OrEqual(magnitude, threshold) == magnitude >= threshold

\* The comparison magnitude > threshold of BaseNode._is_valid_estimate
DeviationTooHigh(magnitude, threshold) == magnitude > threshold

IsValidEstimate_AssumesNadir(fixed_camera, input_data) ==
    LET r_guess ==
            IF static_camera
            THEN IF bridge.attitude = None THEN [pitch |-> -90, yaw |-> 0]
                 ELSE [pitch |-> bridge.attitude.pitch - 90, yaw |-> 0]
            ELSE IF input_data.r_guess = None THEN [pitch |-> -90, yaw |-> 0]
                 ELSE ComposeYaw(input_data.r_guess,
                                 fixed_camera.image_pair.ref.rotation)
        magnitude == Magnitude(fixed_camera.pose.r, r_guess)
    IN  ~DeviationTooHigh(magnitude, ROS_D_MISC_ATTITUDE_DEVIATION_THRESHOLD)

\* BaseNode._is_valid_estimate
IsValidEstimate(fixed_camera, input_data) ==
    IF static_camera /\ bridge.attitude = None THEN FALSE
    ELSE IF input_data.r_guess = None /\ ~static_camera THEN FALSE
    ELSE LET r_guess ==
                 IF static_camera
                 THEN [pitch |-> bridge.attitude.pitch - 90, yaw |-> 0]
                 ELSE ComposeYaw(input_data.r_guess,
                                 fixed_camera.image_pair.ref.rotation)
             magnitude == Magnitude(fixed_camera.pose.r, r_guess)
         IN  ~DeviationTooHigh(magnitude,
                               ROS_D_MISC_ATTITUDE_DEVIATION_THRESHOLD)

PoseResultsPending_Never == FALSE

\* The test "self._pose_estimation_query is None or ...result.ready()"
PoseResultsPending ==
    ~(pose_estimation_query = None
      \/ Ready(pose_estimator_pool, pose_estimation_query.result))

AltitudeTooLow_OrEqual(altitude, min_alt) == altitude <= min_alt

\* The comparison self._bridge.altitude_agl < min_alt of
\* BaseNode._should_estimate
AltitudeTooLow(altitude, min_alt) == altitude < min_alt

ShouldEstimate_WithoutMap ==
    IF PoseResultsPending THEN FALSE
    ELSE IF CameraRollOrPitchTooHigh(ROS_D_MISC_MAX_PITCH) THEN FALSE
    ELSE IF bridge.altitude_agl = None
            \/ AltitudeTooLow(bridge.altitude_agl.val,
                              ROS_D_MISC_MIN_MATCH_ALTITUDE)
         THEN FALSE
    ELSE TRUE

\* BaseNode._should_estimate
ShouldEstimate ==
    IF map_data = None THEN FALSE
    ELSE IF PoseResultsPending THEN FALSE
    ELSE IF CameraRollOrPitchTooHigh(ROS_D_MISC_MAX_PITCH) THEN FALSE
    ELSE IF bridge.altitude_agl = None
            \/ AltitudeTooLow(bridge.altitude_agl.val,
                              ROS_D_MISC_MIN_MATCH_ALTITUDE)
         THEN FALSE
    ELSE TRUE

EstimationInputs_YawFromGimbalOnly(job) ==
    LET input_data == [r_guess |-> RGuess, attitude |-> bridge.attitude,
                       job |-> job]
        camera_yaw == IF bridge.gimbal_set_attitude # None
                      THEN Some(bridge.gimbal_set_attitude.yaw)
                      ELSE None
    IN  IF camera_yaw = None THEN None
        ELSE [input_data |-> input_data,
              contextual_map_data |->
                  [rotation |-> camera_yaw.val, map_data |-> map_data,
                   crop |-> ImgDim]]

\* BaseNode._estimation_inputs (job names the dispatch the snapshot is
\* taken for); none when the camera yaw is unknown
EstimationInputs(job) ==
    LET input_data == [r_guess |-> RGuess, attitude |-> bridge.attitude,
                       job |-> job]
        camera_yaw == IF bridge.gimbal_set_attitude # None /\ ~static_camera
                      THEN Some(bridge.gimbal_set_attitude.yaw)
                      ELSE IF ~static_camera THEN None
                           ELSE Some(bridge.attitude.yaw)
    IN  IF camera_yaw = None THEN None
        ELSE [input_data |-> input_data,
              contextual_map_data |->
                  [rotation |-> camera_yaw.val, map_data |-> map_data,
                   crop |-> ImgDim]]

MapInputDataAfterFrame_Always(should_estimate, inputs) == inputs

\* The value BaseNode._image_raw_callback leaves in self._map_input_data
MapInputDataAfterFrame(should_estimate, inputs) ==
    IF should_estimate THEN inputs ELSE map_input_data

PoseGuessForWorker_None == None

\* pose_guess = None if self._pose_guess is None else tuple(self._pose_guess)
\* in BaseNode._estimate
PoseGuessForWorker == pose_guess

\* BaseNode._estimate up to and including apply_async: the task is handed to
\* the pool, the AsyncPoseQuery is not yet stored
Estimate(job, image_pair, input_data) ==
    IF lifecycle.pose_pool_terminated
    THEN /\ mainPc' = "raised"
         /\ UNCHANGED <<pose_estimator_pool, mainLocal>>
    ELSE /\ pose_estimator_pool' = [pose_estimator_pool EXCEPT
                !.count = job,
                !.tasks = Append(@, [job |-> job, image_pair |-> image_pair,
                                     input_data |-> input_data,
                                     pose_guess |-> PoseGuessForWorker])]
         /\ mainPc' = "pose_estimation_query"
         /\ mainLocal' = [result |-> job, image_pair |-> image_pair,
                          input_data |-> input_data]

SynchronizedTimeMissing_Never == FALSE

\* The test self._bridge.synchronized_time is None that opens
\* BaseNode._image_raw_callback
SynchronizedTimeMissing == bridge.synchronized_time = None

FrameShapeMismatch_Never(frame_dim) == FALSE

\* The assertion cv_img_shape == self._img_dim of
\* BaseNode._image_raw_callback fails
FrameShapeMismatch(frame_dim) == ImgDim # None /\ frame_dim # ImgDim

\* BaseNode._image_raw_callback for a frame of shape frame_dim
ImageRawCallback(frame_dim) ==
    /\ mainPc = "idle"
    /\ Subscribed
    /\ IF SynchronizedTimeMissing
       THEN UNCHANGED <<pose_estimator_pool, map_input_data, mainPc, mainLocal>>
       ELSE IF FrameShapeMismatch(frame_dim)
       THEN /\ mainPc' = "raised"
            /\ UNCHANGED <<pose_estimator_pool, map_input_data, mainLocal>>
       ELSE IF bridge.camera_data = None
       THEN UNCHANGED <<pose_estimator_pool, map_input_data, mainPc, mainLocal>>
       ELSE IF ShouldEstimate
       THEN /\ pose_estimator_pool.count < MaxPoseJobs
            /\ LET job == pose_estimator_pool.count + 1
                   snapshot == EstimationInputs(job)
                   image_data == [frame |-> job,
                                  timestamp |-> bridge.synchronized_time]
                   image_pair == [qry |-> image_data,
                                  ref |-> snapshot.contextual_map_data,
                                  job |-> job]
               IN  IF snapshot = None
                   THEN /\ mainPc' = "raised"
                        /\ UNCHANGED <<pose_estimator_pool, map_input_data,
                                       mainLocal>>
                   ELSE /\ map_input_data' =
                               MapInputDataAfterFrame(TRUE,
                                                      snapshot.input_data)
                        /\ Estimate(job, image_pair, snapshot.input_data)
       ELSE /\ map_input_data' = MapInputDataAfterFrame(FALSE, None)
            /\ UNCHANGED <<pose_estimator_pool, mainPc, mainLocal>>
    /\ UNCHANGED <<matmul, lifecycle, static_camera, gimbal_projection, bridge, wms_query,
                   wms_pool, map_data, pose_estimation_query,
                   map_input_data_prev, fixed_camera_prev, pose_guess,
                   published, poseCb, wmsOutcome, poseOutcome>>

\* The assignment self._pose_estimation_query = AsyncPoseQuery(...) that ends
\* BaseNode._estimate
StorePoseQuery ==
    /\ mainPc = "pose_estimation_query"
    /\ pose_estimation_query' = mainLocal
    /\ mainPc' = "idle"
    /\ mainLocal' = None
    /\ UNCHANGED <<matmul, lifecycle, static_camera, gimbal_projection, bridge, wms_query,
                   wms_pool, map_data, pose_estimator_pool, map_input_data,
                   map_input_data_prev, fixed_camera_prev, pose_guess,
                   published, poseCb, wmsOutcome, poseOutcome>>

\* -------------------------------------------------- pose estimation callbacks
IdleCallback == [pc |-> "idle"]

PoseGuessAfterPose_KeepsOld(pose) == pose_guess

\* self._pose_guess = pose in BaseNode._pose_estimation_worker_callback
PoseGuessAfterPose(pose) == pose

PublishedAfterCheck_Unchecked(valid, fixed_camera, job) ==
    Append(published, [fixed_camera |-> fixed_camera, job |-> job,
                       valid |-> valid])

\* self.publish(fixed_camera), reached only past the validity check
PublishedAfterCheck(valid, fixed_camera, job) ==
    IF valid
    THEN Append(published, [fixed_camera |-> fixed_camera, job |-> job,
                            valid |-> valid])
    ELSE published

FixedCameraPrevAfterCheck_Unchecked(valid, fixed_camera) == fixed_camera

\* self._fixed_camera_prev = fixed_camera, reached only past the check
FixedCameraPrevAfterCheck(valid, fixed_camera) ==
    IF valid THEN fixed_camera ELSE fixed_camera_prev

\* self._map_input_data_prev = self._map_input_data, reached only past the
\* check
MapInputDataPrevAfterCheck(valid) ==
    IF valid THEN map_input_data ELSE map_input_data_prev

PoseEstimationWorkerErrorCallback_Clears == None

\* BaseNode._pose_estimation_worker_error_callback: logs, stores nothing
PoseEstimationWorkerErrorCallback == pose_guess

\* The handler thread leaves the callback of job and sets its result ready
PoseResolved(job, kind, guess_before, pose) ==
    /\ pose_estimator_pool' = [pose_estimator_pool EXCEPT
           !.tasks = Tail(@), !.ready = @ \cup {job}]
    /\ poseCb' = IdleCallback
    /\ poseOutcome' = [job |-> job, kind |-> kind,
                       guess_before |-> guess_before, pose |-> pose]

\* The result-handler thread of _pose_estimator_pool takes the oldest result
\* and enters BaseNode._pose_estimation_worker_callback (or the error
\* callback): up to the read of self._pose_estimation_query.image_pair
PoseEstimationWorker ==
    /\ ~lifecycle.pose_pool_terminated
    /\ pose_estimator_pool.alive
    /\ pose_estimator_pool.tasks # <<>>
    /\ poseCb.pc = "idle"
    /\ LET job == Head(pose_estimator_pool.tasks).job
       IN  \/ /\ PoseResolved(job, "error", pose_guess, None)
              /\ pose_guess' = PoseEstimationWorkerErrorCallback
           \/ \E result \in PoseResults :
                IF result = None
                THEN /\ PoseResolved(job, "none", pose_guess, None)
                     /\ UNCHANGED pose_guess
                ELSE IF PoseRaises(result)
                THEN /\ PoseResolved(job, "bad_pose", pose_guess, None)
                     /\ UNCHANGED pose_guess
                ELSE /\ pose_guess' = PoseGuessAfterPose(Pose(result))
                     /\ IF pose_estimation_query = None
                        THEN /\ pose_estimator_pool' =
                                    [pose_estimator_pool EXCEPT !.alive = FALSE]
                             /\ poseOutcome' =
                                    [job |-> job, kind |-> "raised",
                                     guess_before |-> pose_guess,
                                     pose |-> Pose(result)]
                             /\ UNCHANGED poseCb
                        ELSE /\ poseCb' =
                                    [pc |-> "fixed_camera", job |-> job,
                                     pose |-> Pose(result),
                                     guess_before |-> pose_guess,
                                     image_pair |->
                                         pose_estimation_query.image_pair]
                             /\ UNCHANGED <<pose_estimator_pool, poseOutcome>>
    /\ UNCHANGED <<matmul, lifecycle, static_camera, gimbal_projection, bridge, wms_query,
                   wms_pool, map_data, pose_estimation_query, map_input_data,
                   map_input_data_prev, fixed_camera_prev, published, mainPc,
                   mainLocal, wmsOutcome>>

\* BaseNode._pose_estimation_worker_callback: the read of
\* self._pose_estimation_query.input_data and the FixedCamera construction
PoseCallbackFixedCamera ==
    /\ poseCb.pc = "fixed_camera"
    /\ LET input_data == pose_estimation_query.input_data
       IN  IF FixedCameraRaises(poseCb.pose, poseCb.image_pair)
           THEN PoseResolved(poseCb.job, "no_fix", poseCb.guess_before,
                             poseCb.pose)
           ELSE /\ poseCb' = [pc |-> "validity", job |-> poseCb.job,
                              pose |-> poseCb.pose,
                              guess_before |-> poseCb.guess_before,
                              fixed_camera |->
                                  FixedCamera(poseCb.pose, poseCb.image_pair,
                                              input_data)]
                /\ UNCHANGED <<pose_estimator_pool, poseOutcome>>
    /\ UNCHANGED <<matmul, lifecycle, static_camera, gimbal_projection, bridge, wms_query,
                   wms_pool, map_data, pose_estimation_query, map_input_data,
                   map_input_data_prev, fixed_camera_prev, pose_guess,
                   published, mainPc, mainLocal, wmsOutcome>>

\* BaseNode._pose_estimation_worker_callback: the validity check on
\* self._pose_estimation_query.input_data, publish, and the two assignments
PoseCallbackValidity ==
    /\ poseCb.pc = "validity"
    /\ LET valid == IsValidEstimate(poseCb.fixed_camera,
                                    pose_estimation_query.input_data)
       IN  /\ published' = PublishedAfterCheck(valid, poseCb.fixed_camera,
                                               poseCb.job)
           /\ map_input_data_prev' = MapInputDataPrevAfterCheck(valid)
           /\ fixed_camera_prev' =
                  FixedCameraPrevAfterCheck(valid, poseCb.fixed_camera)
           /\ PoseResolved(poseCb.job,
                           IF valid THEN "published" ELSE "invalid",
                           poseCb.guess_before, poseCb.pose)
    /\ UNCHANGED <<matmul, lifecycle, static_camera, gimbal_projection, bridge, wms_query,
                   wms_pool, map_data, pose_estimation_query, map_input_data,
                   pose_guess, mainPc, mainLocal, wmsOutcome>>

\* ------------------------------------------------------------------ telemetry
\* The autopilot bridge receives a message: the telemetry value it carries
\* replaces the one held so far
BridgeUpdate(telemetry) ==
    /\ mainPc = "idle"
    /\ Subscribed
    /\ \E f \in BridgeFields : \E v \in telemetry[f] \ {None} :
          /\ v # bridge[f]
          /\ bridge' = [bridge EXCEPT ![f] = v]
    /\ UNCHANGED <<matmul, lifecycle, static_camera, gimbal_projection, wms_query, wms_pool,
                   map_data, pose_estimation_query, pose_estimator_pool,
                   map_input_data, map_input_data_prev, fixed_camera_prev,
                   pose_guess, published, mainPc, mainLocal, poseCb,
                   wmsOutcome, poseOutcome>>

\* A camera frame arrives with the shape of one of the cameras
FrameArrives(telemetry) ==
    \E c \in telemetry.camera_data \ {None} : ImageRawCallback(c.dim)

\* ------------------------------------------------------------------- teardown
\* The host tears the node down from the thread that ran the executor, after
\* the executor has returned or a handler has raised out of it
HostMayTearDown == mainPc \in {"idle", "raised"}

\* The order in which the host calls the teardown hooks: destroy_timers,
\* then terminate_pools, then unsubscribe_topics
TeardownMayTerminatePools == lifecycle.map_update_timer = "destroyed"

TeardownMayUnsubscribe == lifecycle.pose_pool_terminated

\* BaseNode.destroy_timers
DestroyTimers ==
    /\ HostMayTearDown
    /\ lifecycle.map_update_timer = "active"
    /\ lifecycle' = [lifecycle EXCEPT !.map_update_timer = "destroyed"]
    /\ UNCHANGED <<matmul, static_camera, gimbal_projection, bridge, wms_query,
                   wms_pool, map_data, pose_estimation_query,
                   pose_estimator_pool, map_input_data, map_input_data_prev,
                   fixed_camera_prev, pose_guess, published, mainPc,
                   mainLocal, poseCb, wmsOutcome, poseOutcome>>

\* BaseNode.terminate_pools: the pose estimator pool, and the WMS pool if a
\* map request has created it. Pool.terminate() joins the result-handler
\* thread, which first finishes the callback it is in
TerminatePools ==
    /\ HostMayTearDown
    /\ TeardownMayTerminatePools
    /\ ~lifecycle.pose_pool_terminated
    /\ poseCb.pc = "idle"
    /\ lifecycle' = [lifecycle EXCEPT
                         !.pose_pool_terminated = TRUE,
                         !.wms_pool_terminated = (wms_pool.count > 0)]
    /\ UNCHANGED <<matmul, static_camera, gimbal_projection, bridge, wms_query,
                   wms_pool, map_data, pose_estimation_query,
                   pose_estimator_pool, map_input_data, map_input_data_prev,
                   fixed_camera_prev, pose_guess, published, mainPc,
                   mainLocal, poseCb, wmsOutcome, poseOutcome>>

\* BaseNode.unsubscribe_topics
UnsubscribeTopics ==
    /\ HostMayTearDown
    /\ TeardownMayUnsubscribe
    /\ lifecycle.subscribed
    /\ lifecycle' = [lifecycle EXCEPT !.subscribed = FALSE]
    /\ UNCHANGED <<matmul, static_camera, gimbal_projection, bridge, wms_query,
                   wms_pool, map_data, pose_estimation_query,
                   pose_estimator_pool, map_input_data, map_input_data_prev,
                   fixed_camera_prev, pose_guess, published, mainPc,
                   mainLocal, poseCb, wmsOutcome, poseOutcome>>

\* ------------------------------------------------------------- specification
\* BaseNode.__init__
Init ==
    /\ static_camera = ROS_D_STATIC_CAMERA
    /\ gimbal_projection = ROS_D_MAP_UPDATE_GIMBAL_PROJECTION
    /\ bridge = [f \in BridgeFields |-> None]
    /\ wms_query = None
    /\ wms_pool = EmptyPool
    /\ map_data = None
    /\ pose_estimation_query = None
    /\ pose_estimator_pool = EmptyPool
    /\ map_input_data = None
    /\ map_input_data_prev = None
    /\ fixed_camera_prev = None
    /\ pose_guess = None
    /\ published = <<>>
    /\ mainPc = "idle"
    /\ mainLocal = None
    /\ poseCb = IdleCallback
    /\ wmsOutcome = None
    /\ poseOutcome = None
    /\ lifecycle = Constructed(ROS_D_MAP_UPDATE_UPDATE_DELAY)
    /\ matmul = None

Next ==
    \/ BridgeUpdate(CoreTelemetry)
    \/ MapUpdateTimerCallback
    \/ StoreWmsQuery
    \/ WmsPoolWorker
    \/ FrameArrives(CoreTelemetry)
    \/ StorePoseQuery
    \/ PoseEstimationWorker
    \/ PoseCallbackFixedCamera
    \/ PoseCallbackValidity

Spec == Init /\ [][Next]_vars

\* The map update path on its own, with gimbal projection on or off: the
\* timer, the WMS pool and the telemetry they read
InitMapUpdate ==
    /\ static_camera = ROS_D_STATIC_CAMERA
    /\ gimbal_projection \in BOOLEAN
    /\ bridge = [f \in BridgeFields |-> None]
    /\ wms_query = None
    /\ wms_pool = EmptyPool
    /\ map_data = None
    /\ pose_estimation_query = None
    /\ pose_estimator_pool = EmptyPool
    /\ map_input_data = None
    /\ map_input_data_prev = None
    /\ fixed_camera_prev = None
    /\ pose_guess = None
    /\ published = <<>>
    /\ mainPc = "idle"
    /\ mainLocal = None
    /\ poseCb = IdleCallback
    /\ wmsOutcome = None
    /\ poseOutcome = None
    /\ lifecycle = Constructed(ROS_D_MAP_UPDATE_UPDATE_DELAY)
    /\ matmul = None

NextMapUpdate ==
    \/ BridgeUpdate(MapUpdateTelemetry)
    \/ MapUpdateTimerCallback
    \/ StoreWmsQuery
    \/ WmsPoolWorker

SpecMapUpdate == InitMapUpdate /\ [][NextMapUpdate]_vars

\* The map update path of a vehicle that is on the ground or taking off
NextGround ==
    \/ BridgeUpdate(GroundTelemetry)
    \/ MapUpdateTimerCallback
    \/ StoreWmsQuery
    \/ WmsPoolWorker

SpecGround == InitMapUpdate /\ [][NextGround]_vars

\* The node flying around the limits of _should_estimate
NextEstimate ==
    \/ BridgeUpdate(EstimateTelemetry)
    \/ MapUpdateTimerCallback
    \/ StoreWmsQuery
    \/ WmsPoolWorker
    \/ FrameArrives(EstimateTelemetry)
    \/ StorePoseQuery
    \/ PoseEstimationWorker
    \/ PoseCallbackFixedCamera
    \/ PoseCallbackValidity

SpecEstimate == Init /\ [][NextEstimate]_vars

\* The node configured with misc.static_camera set
InitStatic ==
    /\ static_camera = TRUE
    /\ gimbal_projection = ROS_D_MAP_UPDATE_GIMBAL_PROJECTION
    /\ bridge = [f \in BridgeFields |-> None]
    /\ wms_query = None
    /\ wms_pool = EmptyPool
    /\ map_data = None
    /\ pose_estimation_query = None
    /\ pose_estimator_pool = EmptyPool
    /\ map_input_data = None
    /\ map_input_data_prev = None
    /\ fixed_camera_prev = None
    /\ pose_guess = None
    /\ published = <<>>
    /\ mainPc = "idle"
    /\ mainLocal = None
    /\ poseCb = IdleCallback
    /\ wmsOutcome = None
    /\ poseOutcome = None
    /\ lifecycle = Constructed(ROS_D_MAP_UPDATE_UPDATE_DELAY)
    /\ matmul = None

NextStatic ==
    \/ BridgeUpdate(StaticTelemetry)
    \/ MapUpdateTimerCallback
    \/ StoreWmsQuery
    \/ WmsPoolWorker
    \/ FrameArrives(StaticTelemetry)
    \/ StorePoseQuery
    \/ PoseEstimationWorker
    \/ PoseCallbackFixedCamera
    \/ PoseCallbackValidity

SpecStatic == InitStatic /\ [][NextStatic]_vars

\* The validity check on its own: the callback of a pose query stands at the
\* call of _is_valid_estimate, for a gimbaled or a static camera, with the
\* vehicle attitude and the rotation guess of the snapshot present or not
ValidityAttitudes == Opt({Attitude(0, 0, 0), Attitude(0, 40, 0)})

ValidityRGuesses == Opt({[pitch |-> -90, yaw |-> 0], [pitch |-> -60, yaw |-> 0]})

ValidityPoses == {Pose(PoseResult(-80, TRUE, TRUE)),
                  Pose(PoseResult(-79, TRUE, TRUE))}

ValidityRotations == {0, 1}

InitValidity ==
    \E attitude \in ValidityAttitudes, r_guess \in ValidityRGuesses,
       pose \in ValidityPoses, rotation \in ValidityRotations :
       LET camera == CameraData(3, 4, 4, 10)
           held == [bbox |-> GeoSquare(GeoPoint(0, 0), 150),
                    image |-> [job |-> 1,
                               bounds |-> GeoSquare(GeoPoint(0, 0), 150),
                               dim |-> Dim(5, 5)],
                    elevation |-> None]
           input_data == [r_guess |-> r_guess,
                          attitude |-> Attitude(0, 0, 0), job |-> 1]
           image_pair == [qry |-> [frame |-> 1, timestamp |-> Some(1)],
                          ref |-> [rotation |-> rotation, map_data |-> held,
                                   crop |-> camera.dim],
                          job |-> 1]
       IN  /\ static_camera \in BOOLEAN
           /\ gimbal_projection = ROS_D_MAP_UPDATE_GIMBAL_PROJECTION
           /\ bridge = [camera_data |-> camera,
                        gimbal_set_attitude |-> None,
                        attitude |-> attitude,
                        altitude_agl |-> Some(100),
                        global_position |-> GeoPoint(0, 0),
                        synchronized_time |-> Some(1)]
           /\ wms_query = [result |-> 1,
                           geobbox |-> GeoSquare(GeoPoint(0, 0), 150)]
           /\ wms_pool = [tasks |-> <<>>, ready |-> {1}, alive |-> TRUE,
                          count |-> 1]
           /\ map_data = held
           /\ pose_estimation_query = [result |-> 1,
                                       image_pair |-> image_pair,
                                       input_data |-> input_data]
           /\ pose_estimator_pool =
                  [tasks |-> <<[job |-> 1, image_pair |-> image_pair,
                               input_data |-> input_data,
                               pose_guess |-> None]>>,
                   ready |-> {}, alive |-> TRUE, count |-> 1]
           /\ map_input_data = input_data
           /\ map_input_data_prev = None
           /\ fixed_camera_prev = None
           /\ pose_guess = pose
           /\ published = <<>>
           /\ mainPc = "idle"
           /\ mainLocal = None
           /\ poseCb = [pc |-> "validity", job |-> 1, pose |-> pose,
                        guess_before |-> None,
                        fixed_camera |->
                            FixedCamera(pose, image_pair, input_data)]
           /\ wmsOutcome = [job |-> 1, kind |-> "stored"]
           /\ poseOutcome = None
           /\ lifecycle = Constructed(ROS_D_MAP_UPDATE_UPDATE_DELAY)
           /\ matmul = None

NextValidity == PoseCallbackValidity

SpecValidity == InitValidity /\ [][NextValidity]_vars

\* The node from construction, with any map_update.update_delay, to teardown
InitLifecycle ==
    /\ static_camera = ROS_D_STATIC_CAMERA
    /\ gimbal_projection = ROS_D_MAP_UPDATE_GIMBAL_PROJECTION
    /\ bridge = [f \in BridgeFields |-> None]
    /\ wms_query = None
    /\ wms_pool = EmptyPool
    /\ map_data = None
    /\ pose_estimation_query = None
    /\ pose_estimator_pool = EmptyPool
    /\ map_input_data = None
    /\ map_input_data_prev = None
    /\ fixed_camera_prev = None
    /\ pose_guess = None
    /\ published = <<>>
    /\ \E update_delay \in UpdateDelays :
          /\ lifecycle = Constructed(update_delay)
          /\ mainPc = IF Constructed(update_delay).map_update_timer = "none"
                      THEN "raised" ELSE "idle"
    /\ mainLocal = None
    /\ poseCb = IdleCallback
    /\ wmsOutcome = None
    /\ poseOutcome = None
    /\ matmul = None

NextLifecycle ==
    \/ BridgeUpdate(LifecycleTelemetry)
    \/ MapUpdateTimerCallback
    \/ StoreWmsQuery
    \/ WmsPoolWorker
    \/ FrameArrives(LifecycleTelemetry)
    \/ StorePoseQuery
    \/ PoseEstimationWorker
    \/ PoseCallbackFixedCamera
    \/ PoseCallbackValidity
    \/ DestroyTimers
    \/ TerminatePools
    \/ UnsubscribeTopics

SpecLifecycle == InitLifecycle /\ [][NextLifecycle]_vars

\* The node receiving frames of the declared shape and of another shape
FrameDims == {Dim(3, 4), Dim(4, 3)}

FrameOfAnyShape == \E frame_dim \in FrameDims : ImageRawCallback(frame_dim)

NextFrames ==
    \/ BridgeUpdate(LifecycleTelemetry)
    \/ MapUpdateTimerCallback
    \/ StoreWmsQuery
    \/ WmsPoolWorker
    \/ FrameOfAnyShape
    \/ StorePoseQuery
    \/ PoseEstimationWorker
    \/ PoseCallbackFixedCamera
    \/ PoseCallbackValidity

SpecFrames == Init /\ [][NextFrames]_vars

\* The node with a gimbaled or with a static camera
InitEitherCamera ==
    /\ static_camera \in BOOLEAN
    /\ gimbal_projection = ROS_D_MAP_UPDATE_GIMBAL_PROJECTION
    /\ bridge = [f \in BridgeFields |-> None]
    /\ wms_query = None
    /\ wms_pool = EmptyPool
    /\ map_data = None
    /\ pose_estimation_query = None
    /\ pose_estimator_pool = EmptyPool
    /\ map_input_data = None
    /\ map_input_data_prev = None
    /\ fixed_camera_prev = None
    /\ pose_guess = None
    /\ published = <<>>
    /\ mainPc = "idle"
    /\ mainLocal = None
    /\ poseCb = IdleCallback
    /\ wmsOutcome = None
    /\ poseOutcome = None
    /\ lifecycle = Constructed(ROS_D_MAP_UPDATE_UPDATE_DELAY)
    /\ matmul = None

SpecEitherCamera == InitEitherCamera /\ [][NextFrames]_vars

\* ------------------------------------------- python_px4_ros2_map_nav.data.Pose
\* Vectors are triples, matrices triples of rows, with whole-number entries
VecAdd(a, b) == <<a[1] + b[1], a[2] + b[2], a[3] + b[3]>>

MatVec(m, v) ==
    <<m[1][1] * v[1] + m[1][2] * v[2] + m[1][3] * v[3],
      m[2][1] * v[1] + m[2][2] * v[2] + m[2][3] * v[3],
      m[3][1] * v[1] + m[3][2] * v[2] + m[3][3] * v[3]>>

MatMul(a, b) ==
    [i \in 1..3 |->
        [j \in 1..3 |-> a[i][1] * b[1][j] + a[i][2] * b[2][j]
                                            + a[i][3] * b[3][j]]]

Det3(m) ==
    m[1][1] * (m[2][2] * m[3][3] - m[2][3] * m[3][2])
    - m[1][2] * (m[2][1] * m[3][3] - m[2][3] * m[3][1])
    + m[1][3] * (m[2][1] * m[3][2] - m[2][2] * m[3][1])

\* The camera intrinsic matrix k of an ImageData
Intrinsics(fx, fy, cx, cy) ==
    <<<<fx, 0, cx>>, <<0, fy, cy>>, <<0, 0, 1>>>>

\* np.delete(np.hstack((r, t)), 2, 1): the first two columns of r, then t
DropZColumn(r, t) ==
    [i \in 1..3 |-> <<r[i][1], r[i][2], t[i]>>]

\* Pose(image_pair, r, t) raises: np.linalg.inv(h) in Pose.__post_init__
\* fails for a singular h = k @ np.delete(e, 2, 1)
MapNavPoseRaises(image_pair, r, t) ==
    Det3(MatMul(image_pair.img.k, DropZColumn(r, t))) = 0

\* Pose(image_pair, r, t) with the computed field camera_center
MapNavPose(image_pair, r, t) ==
    [image_pair |-> image_pair, r |-> r, t |-> t,
     camera_center |-> <<image_pair.img.k[1][3], image_pair.img.k[2][3],
                         -image_pair.img.k[1][1]>>]

\* Pose.__matmul__: self @ pose
PoseMatmul(self, pose) ==
    IF self.image_pair.img.k # pose.image_pair.img.k
    THEN [kind |-> "AssertionError"]
    ELSE LET image_pair == [img |-> self.image_pair.img,
                            ref |-> pose.image_pair.ref]
             r == MatMul(self.r, pose.r)
             t == VecAdd(self.t,
                         MatVec(self.r, VecAdd(pose.t, pose.camera_center)))
         IN  IF MapNavPoseRaises(image_pair, r, t)
             THEN [kind |-> "LinAlgError"]
             ELSE [kind |-> "pose", pose |-> MapNavPose(image_pair, r, t)]

\* Rotations: none, a quarter turn about z, a half turn about x
MatmulRotations ==
    {<<<<1, 0, 0>>, <<0, 1, 0>>, <<0, 0, 1>>>>,
     <<<<0, -1, 0>>, <<1, 0, 0>>, <<0, 0, 1>>>>,
     <<<<1, 0, 0>>, <<0, -1, 0>>, <<0, 0, -1>>>>}

MatmulTranslations == {<<1, 2, 3>>, <<0, 0, 5>>}

\* Image pairs of two frames taken with one camera and one taken with
\* another, each matched against a reference of its own
MatmulImagePairs ==
    {[img |-> [frame |-> 1, k |-> Intrinsics(4, 4, 2, 1)],
      ref |-> [frame |-> 11]],
     [img |-> [frame |-> 2, k |-> Intrinsics(4, 4, 2, 1)],
      ref |-> [frame |-> 12]],
     [img |-> [frame |-> 3, k |-> Intrinsics(5, 5, 2, 1)],
      ref |-> [frame |-> 13]]}

MatmulPoses ==
    {MapNavPose(c[1], c[2], c[3]) :
        c \in {d \in MatmulImagePairs \X MatmulRotations \X MatmulTranslations :
                  ~MapNavPoseRaises(d[1], d[2], d[3])}}

\* Two poses are at hand and self @ pose has not been evaluated
InitMatmul ==
    /\ static_camera = ROS_D_STATIC_CAMERA
    /\ gimbal_projection = ROS_D_MAP_UPDATE_GIMBAL_PROJECTION
    /\ bridge = [f \in BridgeFields |-> None]
    /\ wms_query = None
    /\ wms_pool = EmptyPool
    /\ map_data = None
    /\ pose_estimation_query = None
    /\ pose_estimator_pool = EmptyPool
    /\ map_input_data = None
    /\ map_input_data_prev = None
    /\ fixed_camera_prev = None
    /\ pose_guess = None
    /\ published = <<>>
    /\ mainPc = "idle"
    /\ mainLocal = None
    /\ poseCb = IdleCallback
    /\ wmsOutcome = None
    /\ poseOutcome = None
    /\ lifecycle = Constructed(ROS_D_MAP_UPDATE_UPDATE_DELAY)
    /\ \E self \in MatmulPoses, pose \in MatmulPoses :
          matmul = [self |-> self, pose |-> pose, result |-> None]

\* self @ pose is evaluated
Matmul ==
    /\ matmul.result = None
    /\ matmul' = [matmul EXCEPT !.result = PoseMatmul(matmul.self, matmul.pose)]
    /\ UNCHANGED <<lifecycle, static_camera, gimbal_projection, bridge,
                   wms_query, wms_pool, map_data, pose_estimation_query,
                   pose_estimator_pool, map_input_data, map_input_data_prev,
                   fixed_camera_prev, pose_guess, published, mainPc,
                   mainLocal, poseCb, wmsOutcome, poseOutcome>>

NextMatmul == Matmul

SpecMatmul == InitMatmul /\ [][NextMatmul]_vars

\* The node with workers and handler threads that keep running: a result
\* that can be handled is handled, a callback or handler that has started
\* runs on
FairSpec ==
    /\ Spec
    /\ WF_vars(StoreWmsQuery)
    /\ WF_vars(WmsPoolWorker)
    /\ WF_vars(StorePoseQuery)
    /\ WF_vars(PoseEstimationWorker)
    /\ WF_vars(PoseCallbackFixedCamera)
    /\ WF_vars(PoseCallbackValidity)

\* ===================================================================== claims
Unresolved(pool, query) == query # None /\ query.result \notin pool.ready

InvalidKinds == {"no_fix", "invalid"}

SkippedKinds == {"none", "bad_pose", "no_fix", "invalid"}

PoseCallbackEnds == poseOutcome' # poseOutcome

WmsCallbackEnds == wmsOutcome' # wmsOutcome

\* C1: at most one map-fetch request is unresolved at any time; from a state
\* in which the recorded map query is not ready no step (a timer tick in
\* particular) dispatches a request or replaces the recorded query, and
\* _should_request_new_map is false for the candidate of a tick.
C1_AtMostOneMapRequest ==
    /\ [](Len(wms_pool.tasks) <= 1)
    /\ []((Unresolved(wms_pool, wms_query) /\ VehiclePosition # None)
             => ~ShouldRequestNewMap(MapCandidate))
    /\ [][(mainPc = "idle" /\ Unresolved(wms_pool, wms_query))
             => (wms_pool'.count = wms_pool.count /\ wms_query' = wms_query)]_vars

\* A tick finds the recorded query unresolved although the vehicle has moved
\* to a place the previous map does not cover and the camera points down
C1_Witness ==
    /\ mainPc = "idle"
    /\ Unresolved(wms_pool, wms_query)
    /\ map_data # None
    /\ VehiclePosition # None
    /\ MapSizeWithPadding # None
    /\ bridge.gimbal_set_attitude # None
    /\ bridge.gimbal_set_attitude.pitch + 90 <= ROS_D_MAP_UPDATE_MAX_PITCH
    /\ IntersectionArea(MapCandidate, map_data.bbox) * 100
           <= 85 * Area(map_data.bbox)

\* C2: at most one pose-estimation query is unresolved at any time; from a
\* state in which the recorded pose query is not ready no step (a frame in
\* particular) dispatches a query or changes the recorded query or the
\* current input data; the task of that query stays with the pool, and the
\* step that resolves it is the completion of that very query.
C2_AtMostOnePoseQuery ==
    /\ [](Len(pose_estimator_pool.tasks) <= 1)
    /\ [](Unresolved(pose_estimator_pool, pose_estimation_query)
            => (/\ ~ShouldEstimate
                /\ pose_estimator_pool.tasks # <<>>
                /\ Head(pose_estimator_pool.tasks).job
                       = pose_estimation_query.result))
    /\ [][(mainPc = "idle"
           /\ Unresolved(pose_estimator_pool, pose_estimation_query))
             => (/\ pose_estimator_pool'.count = pose_estimator_pool.count
                 /\ pose_estimation_query' = pose_estimation_query
                 /\ map_input_data' = map_input_data
                 /\ (pose_estimation_query.result \in pose_estimator_pool'.ready
                        => poseOutcome'.job = pose_estimation_query.result))]_vars

\* A frame finds the recorded query unresolved while a map is available, the
\* camera points down and the vehicle flies high enough
C2_Witness ==
    /\ mainPc = "idle"
    /\ Unresolved(pose_estimator_pool, pose_estimation_query)
    /\ pose_estimator_pool.count < MaxPoseJobs
    /\ map_data # None
    /\ bridge.synchronized_time # None
    /\ bridge.camera_data # None
    /\ bridge.gimbal_set_attitude # None
    /\ bridge.gimbal_set_attitude.pitch + 90 <= ROS_D_MISC_MAX_PITCH
    /\ bridge.altitude_agl # None
    /\ bridge.altitude_agl.val >= ROS_D_MISC_MIN_MATCH_ALTITUDE

\* C3: the callback combines every pose result with the image pair and the
\* input data recorded at the dispatch of the query that produced it.
C3_ResultMeetsItsOwnSnapshot ==
    /\ poseCb.pc = "fixed_camera" => poseCb.image_pair.job = poseCb.job
    /\ poseCb.pc = "validity"
         => /\ poseCb.fixed_camera.image_pair.job = poseCb.job
            /\ poseCb.fixed_camera.elevation_from = poseCb.job
    /\ \A i \in 1..Len(published) :
          /\ published[i].fixed_camera.image_pair.job = published[i].job
          /\ published[i].fixed_camera.elevation_from = published[i].job

\* C4: a callback that ends because the result is none, makes no Pose, makes
\* no FixedCamera or fails the validity check publishes nothing and leaves
\* the previous fixed camera and the previous input data alone; these three
\* change only in the step that ends a callback whose estimate was valid.
C4_SkippedFrameKeepsPrevious ==
    /\ [][(PoseCallbackEnds /\ poseOutcome'.kind \in SkippedKinds)
             => UNCHANGED <<published, fixed_camera_prev,
                            map_input_data_prev>>]_vars
    /\ [][(published' # published \/ fixed_camera_prev' # fixed_camera_prev
           \/ map_input_data_prev' # map_input_data_prev)
             => (PoseCallbackEnds /\ poseOutcome'.kind = "published")]_vars

\* An estimate was published, and the next result failed the validity check
C4_Witness ==
    /\ poseOutcome # None
    /\ poseOutcome.kind = "invalid"
    /\ poseOutcome.job = 2
    /\ Len(published) = 1
    /\ fixed_camera_prev = published[1].fixed_camera
    /\ map_input_data_prev # None

\* C5 as claimed: after a callback that ends on a failed FixedCamera
\* construction or a failed validity check the pose guess is the one from
\* before the callback.
C5_InvalidResultKeepsPoseGuess ==
    [][(PoseCallbackEnds /\ poseOutcome'.kind \in InvalidKinds)
          => pose_guess' = poseOutcome'.guess_before]_vars

\* C5 amended: such a callback publishes nothing and leaves the previous
\* fixed camera, the previous input data, the current input data, the map
\* and both recorded queries alone, but the pose guess it leaves is the Pose
\* built from the rejected result.
C5_InvalidResultBecomesPoseGuess ==
    [][(PoseCallbackEnds /\ poseOutcome'.kind \in InvalidKinds)
          => /\ pose_guess' = poseOutcome'.pose
             /\ UNCHANGED <<published, fixed_camera_prev, map_input_data_prev,
                            map_input_data, map_data, wms_query,
                            pose_estimation_query>>]_vars

\* A rejected result has replaced a different pose guess
C5_Witness ==
    /\ poseOutcome # None
    /\ poseOutcome.kind \in InvalidKinds
    /\ poseCb.pc = "idle"
    /\ pose_guess = poseOutcome.pose
    /\ pose_guess # poseOutcome.guess_before

\* C6: every published FixedCamera passed the validity check, no query is
\* published twice, and there are never more publishes than dispatches.
C6_PublishOnlyValidOncePerQuery ==
    /\ \A i \in 1..Len(published) : published[i].valid
    /\ \A i, j \in 1..Len(published) :
          published[i].job = published[j].job => i = j
    /\ Len(published) <= pose_estimator_pool.count

\* Two queries were dispatched and both were published
C6_Witness ==
    /\ Len(published) = 2
    /\ pose_estimator_pool.count = 2

\* C7: the step that ends a callback whose estimate was valid publishes the
\* FixedCamera, stores it as previous fixed camera, and stores as previous
\* input data the input data the processed query was dispatched with, which
\* is what the current-input-data slot holds at that moment.
C7_ValidResultStoresItsOwnInputData ==
    [][(PoseCallbackEnds /\ poseOutcome'.kind = "published")
          => LET task == Head(pose_estimator_pool.tasks)
             IN  /\ task.job = poseOutcome'.job
                 /\ Len(published') = Len(published) + 1
                 /\ published'[Len(published')].fixed_camera
                        = poseCb.fixed_camera
                 /\ fixed_camera_prev' = poseCb.fixed_camera
                 /\ map_input_data = task.input_data
                 /\ map_input_data_prev' = task.input_data]_vars

\* The second query was published and its input data became the previous one
C7_Witness ==
    /\ poseOutcome # None
    /\ poseOutcome.kind = "published"
    /\ poseOutcome.job = 2
    /\ poseCb.pc = "idle"
    /\ map_input_data_prev # None
    /\ map_input_data_prev.job = 2
    /\ fixed_camera_prev = published[Len(published)].fixed_camera

\* C8: the step in which a map fetch ends in the error callback leaves the
\* MapData as it is, which is as it was when the request was dispatched.
C8_FailedFetchKeepsMapData ==
    [][(WmsCallbackEnds /\ wmsOutcome'.kind = "error")
          => /\ map_data' = map_data
             /\ map_data' = Head(wms_pool.tasks).map_before]_vars

\* A fetch failed while a previously fetched map was held
C8_Witness ==
    /\ wmsOutcome # None
    /\ wmsOutcome.kind = "error"
    /\ wmsOutcome.job = 2
    /\ map_data # None
    /\ map_data.image.job = 1

\* C9: the MapData holds a raster together with the bounding box of the
\* request that produced it.
C9_MapDataBboxIsRequestBbox ==
    map_data # None => map_data.bbox = map_data.image.bounds

\* C10: with a previous map, no pending request and the camera pitch within
\* limits, _should_request_new_map is false for a candidate whose overlap
\* ratios with the previous map both exceed 0.85, and true when the smaller
\* of the two is 0.85 or less.
CandidateRadii == {100, 150, 400}

C10_OverlapThreshold ==
    (/\ map_data # None
     /\ ~Unresolved(wms_pool, wms_query)
     /\ bridge.gimbal_set_attitude # None
     /\ bridge.gimbal_set_attitude.pitch + 90 <= ROS_D_MAP_UPDATE_MAX_PITCH)
    => \A p \in Positions : \A r \in CandidateRadii :
          LET c == GeoSquare(p, r)
              b == map_data.bbox
              i == IntersectionArea(c, b)
              above == 100 * i > 85 * Area(c) /\ 100 * i > 85 * Area(b)
          IN  ShouldRequestNewMap(c) <=> ~above

\* A request was dispatched for a region that overlaps the map held at that
\* moment by exactly 0.85
C10_Witness ==
    /\ map_data # None
    /\ Unresolved(wms_pool, wms_query)
    /\ map_data.image.job = 1
    /\ wms_query.result = 2
    /\ map_data.bbox.radius = wms_query.geobbox.radius
    /\ 100 * IntersectionArea(wms_query.geobbox, map_data.bbox)
           = 85 * Area(map_data.bbox)

\* C11: the validity check accepts an estimate exactly when the angular
\* distance between the estimated rotation and the expected rotation (the
\* gimbal rotation of the input data composed with the map's yaw rotation)
\* is at most the attitude deviation threshold; a distance equal to the
\* threshold is accepted, any greater distance is rejected.
C11_DeviationThreshold ==
    [][(PoseCallbackEnds /\ poseOutcome'.kind \in {"published", "invalid"})
          => LET estimate == poseCb.fixed_camera.pose.r
                 expected == pose_estimation_query.input_data.r_guess
                 camera_yaw == poseCb.fixed_camera.image_pair.ref.rotation
                 distance == Abs(estimate.pitch - expected.pitch)
                             + Abs(estimate.yaw - (expected.yaw + camera_yaw))
             IN  /\ expected # None
                 /\ (poseOutcome'.kind = "published")
                       <=> (distance <= ROS_D_MISC_ATTITUDE_DEVIATION_THRESHOLD)]_vars

\* An estimate exactly 10 degrees from the expected rotation was published
C11_Witness ==
    /\ poseOutcome # None
    /\ poseOutcome.kind = "published"
    /\ poseCb.pc = "idle"
    /\ map_input_data_prev # None
    /\ map_input_data_prev.job = poseOutcome.job
    /\ Abs(poseOutcome.pose.r.pitch - map_input_data_prev.r_guess.pitch)
           = ROS_D_MISC_ATTITUDE_DEVIATION_THRESHOLD
    /\ poseOutcome.pose.r.yaw = map_input_data_prev.r_guess.yaw

\* C12: without camera dimensions the padded map size is none; for a camera
\* of height h and width w it is the square (d, d) with d the smallest
\* integer such that d * d >= h * h + w * w, which for 480 x 640 is
\* (800, 800); a map request asks for a raster of that size.
C12_PaddedMapSize ==
    /\ [](bridge.camera_data = None => MapSizeWithPadding = None)
    /\ [](bridge.camera_data # None
            => LET h == bridge.camera_data.dim.height
                   w == bridge.camera_data.dim.width
                   d == MapSizeWithPadding.height
               IN  /\ MapSizeWithPadding = Dim(d, d)
                   /\ d * d >= h * h + w * w
                   /\ d > 0
                   /\ (d - 1) * (d - 1) < h * h + w * w
                   /\ (h = 480 /\ w = 640)
                         => MapSizeWithPadding = Dim(800, 800))
    /\ [][wms_pool'.count > wms_pool.count
             => wms_pool'.tasks[Len(wms_pool'.tasks)].size
                    = MapSizeWithPadding]_vars

\* A map of 800 x 800 was requested for the 640 x 480 camera, and one of
\* 4 x 4 for the 3 x 2 camera
C12_Witness ==
    /\ mainPc = "wms_query"
    /\ wms_pool.count = 2
    /\ bridge.camera_data # None
    /\ bridge.camera_data.dim = Dim(480, 640)
    /\ wms_pool.tasks # <<>>
    /\ wms_pool.tasks[Len(wms_pool.tasks)].size = Dim(800, 800)
    /\ map_data # None
    /\ map_data.image.dim = Dim(4, 4)

\* C13: the dynamic map radius is min(raw, max_map_radius), where raw is
\* 1.5 * hfov * altitude with camera intrinsics and 3 * altitude without: it
\* never exceeds the maximum, a raw radius at or below the maximum is
\* returned as it is (altitude 100, hfov 1.0: 150), one above is clamped
\* (altitude 1000, hfov 1.0: 400); a map request carries that radius.
C13_DynamicMapRadius ==
    /\ \A altitude \in {100, 1000} :
          LET raw == IF bridge.camera_data # None
                     THEN (15 * bridge.camera_data.hfov10 * altitude) \div 100
                     ELSE 3 * altitude
              map_radius == GetDynamicMapRadius(altitude)
          IN  /\ map_radius = Min(raw, ROS_D_MAP_UPDATE_MAX_MAP_RADIUS)
              /\ map_radius <= ROS_D_MAP_UPDATE_MAX_MAP_RADIUS
              /\ raw <= ROS_D_MAP_UPDATE_MAX_MAP_RADIUS => map_radius = raw
              /\ (bridge.camera_data # None /\ bridge.camera_data.hfov10 = 10)
                    => map_radius = IF altitude = 100 THEN 150 ELSE 400
              /\ bridge.camera_data = None
                    => map_radius = IF altitude = 100 THEN 300 ELSE 400
    /\ mainPc = "wms_query"
         => mainLocal.geobbox.radius
                = GetDynamicMapRadius(bridge.altitude_agl.val)

\* At an altitude of 1000 m a map of the maximum radius was requested, after
\* one of radius 150 had been fetched at 100 m
C13_Witness ==
    /\ mainPc = "wms_query"
    /\ bridge.altitude_agl = Some(1000)
    /\ bridge.camera_data.hfov10 = 10
    /\ mainLocal.geobbox.radius = ROS_D_MAP_UPDATE_MAX_MAP_RADIUS
    /\ map_data # None
    /\ map_data.bbox.radius = 150

\* C14: the assertions in front of the two apply_async calls hold at every
\* dispatch: a map request is dispatched only from a state in which the
\* recorded map query is none or ready, a pose estimation only from a state
\* in which the recorded pose query is none or ready and a MapData is held.
C14_DispatchPreconditions ==
    [][/\ wms_pool'.count > wms_pool.count
            => ~Unresolved(wms_pool, wms_query)
       /\ pose_estimator_pool'.count > pose_estimator_pool.count
            => /\ ~Unresolved(pose_estimator_pool, pose_estimation_query)
               /\ map_data # None]_vars

\* A second pose estimation has just been dispatched, the first one being
\* resolved, while a second map request is still unresolved
C14_Witness ==
    /\ mainPc = "pose_estimation_query"
    /\ pose_estimator_pool.count = 2
    /\ pose_estimation_query # None
    /\ pose_estimation_query.result = 1
    /\ 1 \in pose_estimator_pool.ready
    /\ map_data # None
    /\ wms_pool.count = 2
    /\ Unresolved(wms_pool, wms_query)

\* C15: the completion callbacks run on the coordinating thread: no callback
\* step happens while the executor is inside a timer or frame handler, and
\* the map callback does not run while the pose callback is under way.
C15_CallbacksOnCoordinatingThread ==
    /\ [](poseCb.pc # "idle" => mainPc \in {"idle", "raised"})
    /\ [][(WmsCallbackEnds \/ PoseCallbackEnds \/ poseCb' # poseCb)
             => mainPc \in {"idle", "raised"}]_vars
    /\ [][WmsCallbackEnds => poseCb.pc = "idle"]_vars

\* C16: with workers and handlers that keep running, every recorded query
\* that is unresolved is eventually resolved.
C16_EveryQueryResolves ==
    /\ Unresolved(wms_pool, wms_query) ~> ~Unresolved(wms_pool, wms_query)
    /\ Unresolved(pose_estimator_pool, pose_estimation_query)
          ~> ~Unresolved(pose_estimator_pool, pose_estimation_query)

\* C17: a pose estimation is dispatched only while a MapData is held: once
\* any was dispatched a map fetch has succeeded, and the reference of every
\* dispatched image pair is the MapData held at the moment of the dispatch.
C17_NoEstimateWithoutMap ==
    /\ [](pose_estimator_pool.count > 0
            => (map_data # None /\ wms_pool.ready # {}))
    /\ [][pose_estimator_pool'.count > pose_estimator_pool.count
             => LET task == pose_estimator_pool'.tasks[
                                Len(pose_estimator_pool'.tasks)]
                IN  /\ map_data # None
                    /\ wmsOutcome # None
                    /\ task.image_pair.ref.map_data = map_data]_vars

\* A pose estimation has just been dispatched against the second map fetched
C17_Witness ==
    /\ mainPc = "pose_estimation_query"
    /\ pose_estimator_pool.tasks # <<>>
    /\ map_data # None
    /\ map_data.image.job = 2
    /\ pose_estimator_pool.tasks[Len(pose_estimator_pool.tasks)]
           .image_pair.ref.map_data = map_data

\* C18: _should_estimate is false whenever the altitude above ground is
\* unknown or below the minimum match altitude, and an altitude equal to
\* the minimum does not prevent estimation: with a map, no pending query and
\* the camera pitch within its limit it is true; every pose estimation is
\* dispatched at or above the minimum.
C18_MinMatchAltitude ==
    /\ []((bridge.altitude_agl = None
            \/ bridge.altitude_agl.val < ROS_D_MISC_MIN_MATCH_ALTITUDE)
             => ~ShouldEstimate)
    /\ []((/\ bridge.altitude_agl # None
            /\ bridge.altitude_agl.val >= ROS_D_MISC_MIN_MATCH_ALTITUDE
            /\ map_data # None
            /\ ~Unresolved(pose_estimator_pool, pose_estimation_query)
            /\ bridge.gimbal_set_attitude # None
            /\ bridge.gimbal_set_attitude.pitch + 90 <= ROS_D_MISC_MAX_PITCH)
             => ShouldEstimate)
    /\ [][pose_estimator_pool'.count > pose_estimator_pool.count
             => /\ bridge.altitude_agl # None
                /\ bridge.altitude_agl.val >= ROS_D_MISC_MIN_MATCH_ALTITUDE]_vars

\* A pose estimation has just been dispatched at exactly the minimum match
\* altitude
C18_Witness ==
    /\ mainPc = "pose_estimation_query"
    /\ bridge.altitude_agl = Some(ROS_D_MISC_MIN_MATCH_ALTITUDE)
    /\ pose_estimator_pool.count >= 1

\* The camera pitch from nadir in degrees, none when it cannot be determined
CameraPitchFromNadir ==
    IF static_camera
    THEN IF bridge.attitude = None THEN None
         ELSE Some(Max(bridge.attitude.pitch, bridge.attitude.roll))
    ELSE IF bridge.gimbal_set_attitude = None THEN None
         ELSE Some(bridge.gimbal_set_attitude.pitch + 90)

\* C19: _should_estimate is false whenever the camera pitch from nadir
\* cannot be determined or exceeds misc.max_pitch, and a pitch equal to the
\* maximum does not prevent estimation.
C19_MaxPitch ==
    /\ CameraPitchFromNadir = None => ~ShouldEstimate
    /\ (CameraPitchFromNadir # None
         /\ CameraPitchFromNadir.val > ROS_D_MISC_MAX_PITCH) => ~ShouldEstimate
    /\ (/\ CameraPitchFromNadir # None
         /\ CameraPitchFromNadir.val <= ROS_D_MISC_MAX_PITCH
         /\ map_data # None
         /\ ~Unresolved(pose_estimator_pool, pose_estimation_query)
         /\ bridge.altitude_agl # None
         /\ bridge.altitude_agl.val >= ROS_D_MISC_MIN_MATCH_ALTITUDE)
          => ShouldEstimate

\* C20: for the candidate of a timer tick _should_request_new_map is false
\* when gimbal projection is on and the camera pitch from nadir exceeds
\* map_update.max_pitch; with gimbal projection off the pitch plays no part;
\* with no request pending, the previous map not covering the candidate and
\* the pitch condition off or met it is true.
C20_MapUpdateMaxPitch ==
    VehiclePosition # None
    => /\ (/\ gimbal_projection
            /\ CameraPitchFromNadir # None
            /\ CameraPitchFromNadir.val > ROS_D_MAP_UPDATE_MAX_PITCH)
             => ~ShouldRequestNewMap(MapCandidate)
       /\ ~gimbal_projection
             => (ShouldRequestNewMap(MapCandidate)
                   <=> (~Unresolved(wms_pool, wms_query)
                        /\ ~PreviousMapTooClose(MapCandidate)))
       /\ (/\ ~Unresolved(wms_pool, wms_query)
            /\ ~PreviousMapTooClose(MapCandidate)
            /\ (gimbal_projection
                  => (CameraPitchFromNadir # None
                      /\ CameraPitchFromNadir.val
                             <= ROS_D_MAP_UPDATE_MAX_PITCH)))
             => ShouldRequestNewMap(MapCandidate)

\* C21: while the global position or the altitude above ground is unknown
\* there is no vehicle position and a timer tick does nothing: no step
\* from such a state dispatches a map request, records a map query or
\* changes the MapData; with the position available a tick whose candidate
\* passes _should_request_new_map and whose map size is known dispatches.
C21_TickWithoutPositionIsNoOp ==
    /\ []((bridge.global_position = None \/ bridge.altitude_agl = None)
            => VehiclePosition = None)
    /\ [][(mainPc = "idle"
           /\ (bridge.global_position = None \/ bridge.altitude_agl = None))
             => /\ wms_pool'.count = wms_pool.count
                /\ wms_query' = wms_query
                /\ map_data' = map_data
                /\ mainPc' # "wms_query"]_vars
    /\ [][wms_pool'.count > wms_pool.count
             => /\ VehiclePosition # None
                /\ wms_pool'.tasks[Len(wms_pool'.tasks)].bounds = MapCandidate]_vars

\* The position has arrived and a tick has dispatched a request for the
\* region around it
C21_Witness ==
    /\ mainPc = "wms_query"
    /\ wms_pool.count = 1
    /\ wms_query = None
    /\ VehiclePosition # None
    /\ mainLocal.geobbox = MapCandidate

\* C23: the step in which a pose estimation ends in the error callback
\* publishes nothing and leaves the previous fixed camera, the previous
\* input data, the pose guess, the current input data, the MapData and the
\* recorded queries as they are.
C23_FailedEstimationKeepsState ==
    [][(PoseCallbackEnds /\ poseOutcome'.kind = "error")
          => UNCHANGED <<published, fixed_camera_prev, map_input_data_prev,
                         pose_guess, map_input_data, map_data, wms_query,
                         pose_estimation_query>>]_vars

\* The second pose estimation failed after the first one was published
C23_Witness ==
    /\ poseOutcome # None
    /\ poseOutcome.kind = "error"
    /\ poseOutcome.job = 2
    /\ Len(published) = 1
    /\ pose_guess # None
    /\ fixed_camera_prev # None
    /\ map_input_data_prev # None

\* C22: a frame that arrives while the synchronized time or the camera data
\* is unknown is skipped: no step from such a state dispatches a pose
\* estimation or changes the current input data, the recorded pose query,
\* the pose guess, the previous input data or the previous fixed camera.
C22_FrameWithoutTimeOrCameraIsSkipped ==
    [][(mainPc = "idle"
        /\ (bridge.synchronized_time = None \/ bridge.camera_data = None))
          => /\ pose_estimator_pool' = pose_estimator_pool
             /\ mainPc' # "pose_estimation_query"
             /\ UNCHANGED <<map_input_data, pose_estimation_query, pose_guess,
                            map_input_data_prev, fixed_camera_prev,
                            published>>]_vars

\* Frames arrive without a synchronized time while everything else
\* _should_estimate asks for is there
C22_Witness ==
    /\ mainPc = "idle"
    /\ bridge.synchronized_time = None
    /\ bridge.camera_data # None
    /\ ShouldEstimate
    /\ pose_estimator_pool.count = 0

\* C26: the step that stores a MapData stores a raster of the padded size
\* its request asked for, which is the padded size of the camera declared
\* at that moment, and an elevation raster that is none or of the size of
\* the raster; a result that arrives after the declared camera dimensions
\* changed is not stored.
C26_StoredMapMatchesRequest ==
    /\ [](map_data # None
            => (map_data.elevation # None
                  => map_data.elevation.dim = map_data.image.dim))
    /\ [][(WmsCallbackEnds /\ wmsOutcome'.kind = "stored")
             => LET task == Head(wms_pool.tasks)
                IN  /\ task.job = wmsOutcome'.job
                    /\ map_data'.image.job = task.job
                    /\ map_data'.image.dim = task.size
                    /\ map_data'.image.dim = MapSizeWithPadding]_vars
    /\ [][(WmsCallbackEnds /\ Head(wms_pool.tasks).size # MapSizeWithPadding)
             => (wmsOutcome'.kind # "stored" /\ map_data' = map_data)]_vars

\* A map with an elevation raster is held, and the result of a second
\* request was rejected because the camera dimensions had changed
C26_Witness ==
    /\ map_data # None
    /\ map_data.elevation # None
    /\ map_data.image.job = 1
    /\ wmsOutcome = [job |-> 2, kind |-> "raised"]
    /\ wms_query # None
    /\ wms_query.result = 2
    /\ Head(wms_pool.tasks).size # MapSizeWithPadding

\* C30: a map fetch that is stored while a pose query is unresolved replaces
\* the current MapData and leaves the recorded pose query as it was; a
\* callback that works on the image pair of its own job works on the image
\* pair that was handed to the pool, contextual map included, and so does
\* the fixed camera it publishes.
C30_MapFetchKeepsSnapshot ==
    /\ [][(WmsCallbackEnds /\ wmsOutcome'.kind = "stored")
             => (/\ pose_estimation_query' = pose_estimation_query
                 /\ pose_estimator_pool' = pose_estimator_pool
                 /\ map_data'.image.job = wmsOutcome'.job)]_vars
    /\ []((poseCb.pc = "fixed_camera" /\ poseCb.image_pair.job = poseCb.job)
            => poseCb.image_pair = Head(pose_estimator_pool.tasks).image_pair)
    /\ []((/\ poseCb.pc = "validity"
            /\ poseCb.fixed_camera.image_pair.job = poseCb.job)
            => poseCb.fixed_camera.image_pair
                  = Head(pose_estimator_pool.tasks).image_pair)
    /\ [][(/\ PoseCallbackEnds
            /\ poseOutcome'.kind = "published"
            /\ poseCb.fixed_camera.image_pair.job = poseCb.job)
             => published'[Len(published')].fixed_camera.image_pair
                   = Head(pose_estimator_pool.tasks).image_pair]_vars

\* An estimate was published for a query during whose flight a newer map
\* was stored: the published camera refers to the older map
C30_Witness ==
    /\ published # <<>>
    /\ map_data # None
    /\ LET last == published[Len(published)]
       IN  /\ last.fixed_camera.image_pair.job = last.job
           /\ last.fixed_camera.image_pair.ref.map_data # map_data
           /\ last.fixed_camera.image_pair.ref.map_data.image.job
                 < map_data.image.job
           /\ pose_estimation_query.result = last.job
           /\ poseOutcome.job = last.job

\* C27: whenever a vehicle position is available the candidate region of a
\* timer tick has a radius above zero, and so has the region of every map
\* request handed to the pool.
C27_CandidateRadiusPositive ==
    /\ (mainPc = "idle" /\ VehiclePosition # None) => MapCandidate.radius > 0
    /\ \A i \in 1..Len(wms_pool.tasks) : wms_pool.tasks[i].bounds.radius > 0
    /\ map_data # None => map_data.bbox.radius > 0

\* C28: the outcome of the validity check is determined by the pose and the
\* snapshot taken at dispatch; a callback that works on its own job's
\* snapshot never rejects a pose when the last published estimate had the
\* same pose and a snapshot with the same rotation guess, vehicle attitude
\* and contextual map.
C28_ValidityFromSnapshot ==
    [][(/\ PoseCallbackEnds
        /\ poseOutcome'.kind = "invalid"
        /\ poseCb.fixed_camera.image_pair.job = poseCb.job
        /\ pose_estimation_query.result = poseCb.job
        /\ published # <<>>
        /\ map_input_data_prev # None
        /\ map_input_data_prev.job = published[Len(published)].job)
         => LET last == published[Len(published)].fixed_camera
                mine == pose_estimation_query
            IN  ~(/\ last.pose = poseCb.fixed_camera.pose
                  /\ last.image_pair.job = map_input_data_prev.job
                  /\ last.image_pair.ref = mine.image_pair.ref
                  /\ map_input_data_prev.r_guess = mine.input_data.r_guess
                  /\ map_input_data_prev.attitude
                        = mine.input_data.attitude)]_vars

\* C29: the validity check rejects the estimate when the camera is gimbaled
\* and the rotation guess of the snapshot is none, and when the camera is
\* static and the vehicle attitude is none; the callback then ends without
\* publishing and leaves the previous fixed camera and input data alone.
C29_RejectsWithoutExpectedRotation ==
    /\ []((/\ poseCb.pc = "validity"
            /\ \/ ~static_camera
                   /\ pose_estimation_query.input_data.r_guess = None
               \/ static_camera /\ bridge.attitude = None)
            => ~IsValidEstimate(poseCb.fixed_camera,
                                pose_estimation_query.input_data))
    /\ [][(/\ poseCb.pc = "validity"
            /\ \/ ~static_camera
                   /\ pose_estimation_query.input_data.r_guess = None
               \/ static_camera /\ bridge.attitude = None)
             => (/\ poseOutcome'.kind = "invalid"
                 /\ published' = published
                 /\ fixed_camera_prev' = fixed_camera_prev
                 /\ map_input_data_prev' = map_input_data_prev)]_vars

\* A static camera's estimate 10 degrees from nadir was rejected because no
\* vehicle attitude was available
C29_Witness ==
    /\ static_camera
    /\ bridge.attitude = None
    /\ poseOutcome # None
    /\ poseOutcome.kind = "invalid"
    /\ poseOutcome.pose.r.pitch = -80
    /\ poseCb.pc = "idle"
    /\ published = <<>>

\* C24: the pools are terminated only after the map update timer was
\* destroyed, the bridge is unsubscribed only after the pools were
\* terminated, and once terminate_pools has run no step hands a map
\* request or a pose request to a pool.
C24_TeardownOrder ==
    /\ [](lifecycle.pose_pool_terminated
            => lifecycle.map_update_timer = "destroyed")
    /\ []((lifecycle.map_update_timer # "none" /\ ~lifecycle.subscribed)
            => lifecycle.pose_pool_terminated)
    /\ [][lifecycle'.pose_pool_terminated
             => (/\ wms_pool'.count = wms_pool.count
                 /\ Len(wms_pool'.tasks) <= Len(wms_pool.tasks)
                 /\ pose_estimator_pool'.count = pose_estimator_pool.count
                 /\ Len(pose_estimator_pool'.tasks)
                       <= Len(pose_estimator_pool.tasks))]_vars

\* The node was torn down completely at a moment when a timer tick would
\* have requested the first map: position and camera known, no request yet
C24_Witness ==
    /\ lifecycle.map_update_timer = "destroyed"
    /\ lifecycle.pose_pool_terminated
    /\ ~lifecycle.subscribed
    /\ mainPc = "idle"
    /\ wms_pool.count = 0
    /\ VehiclePosition # None
    /\ MapSizeWithPadding # None
    /\ ShouldRequestNewMap(MapCandidate)

\* C25: with a negative map_update.update_delay the constructor raises out
\* of _setup_map_update_timer: there is no timer, and no map request is
\* ever dispatched or recorded.
C25_NegativePeriodRejected ==
    lifecycle.update_delay < 0
       => /\ lifecycle.map_update_timer = "none"
          /\ mainPc = "raised"
          /\ ~TimerFires
          /\ wms_pool = EmptyPool
          /\ wms_query = None
          /\ map_data = None

\* The node was given a period of -1 and has no timer
C25_Witness ==
    /\ lifecycle.update_delay = -1
    /\ lifecycle.map_update_timer = "none"
    /\ mainPc = "raised"
    /\ ~lifecycle.subscribed

\* C31: with a map held, no pose query pending, the camera pitch within the
\* matching limit and the altitude high enough, _should_estimate is true
\* also while a map request is unresolved; with no map request pending, the
\* previous map not too close and the pitch within the map update limit,
\* _should_request_new_map is true for the candidate of a tick also while a
\* pose query is unresolved.
C31_PipelinesDoNotBlock ==
    /\ (/\ Unresolved(wms_pool, wms_query)
        /\ map_data # None
        /\ ~PoseResultsPending
        /\ ~CameraRollOrPitchTooHigh(ROS_D_MISC_MAX_PITCH)
        /\ bridge.altitude_agl # None
        /\ bridge.altitude_agl.val >= ROS_D_MISC_MIN_MATCH_ALTITUDE)
       => ShouldEstimate
    /\ (/\ Unresolved(pose_estimator_pool, pose_estimation_query)
        /\ VehiclePosition # None
        /\ ~WmsResultsPending
        /\ ~PreviousMapTooClose(MapCandidate)
        /\ ~(gimbal_projection
             /\ CameraRollOrPitchTooHigh(ROS_D_MAP_UPDATE_MAX_PITCH)))
       => ShouldRequestNewMap(MapCandidate)

\* One map request and one pose query are in flight at the same time
C31_Witness ==
    /\ mainPc = "idle"
    /\ Unresolved(wms_pool, wms_query)
    /\ Unresolved(pose_estimator_pool, pose_estimation_query)
    /\ wms_pool.alive
    /\ pose_estimator_pool.alive
    /\ Len(wms_pool.tasks) = 1
    /\ Len(pose_estimator_pool.tasks) = 1
    /\ wms_pool.tasks[1].job = wms_query.result
    /\ pose_estimator_pool.tasks[1].job = pose_estimation_query.result

\* C32: the pose guess handed to the worker at a dispatch is the value of
\* _pose_guess at that moment; _pose_guess is none until a worker result
\* makes a Pose, every result that makes a Pose replaces it by that Pose,
\* and a result that is none, an error or makes no Pose leaves it alone, so
\* that it is the Pose of the most recent result that made one.
C32_PoseGuessIsLatestPose ==
    /\ [][pose_estimator_pool'.count > pose_estimator_pool.count
             => (/\ pose_estimator_pool'.tasks[Len(pose_estimator_pool'.tasks)]
                        .pose_guess = pose_guess
                 /\ pose_guess' = pose_guess
                 /\ poseCb.pc = "idle")]_vars
    /\ [][pose_guess' # pose_guess
             => \/ /\ poseCb.pc = "idle"
                   /\ poseCb'.pc = "fixed_camera"
                   /\ pose_guess' = poseCb'.pose
                \/ /\ PoseCallbackEnds
                   /\ poseOutcome'.kind = "raised"
                   /\ pose_guess' = poseOutcome'.pose]_vars
    /\ [][(poseCb.pc = "idle" /\ poseCb'.pc = "fixed_camera")
             => pose_guess' = poseCb'.pose]_vars
    /\ [][(PoseCallbackEnds /\ poseOutcome'.kind = "raised")
             => pose_guess' = poseOutcome'.pose]_vars
    /\ [][(PoseCallbackEnds
            /\ poseOutcome'.kind \in {"none", "bad_pose", "error"})
             => pose_guess' = pose_guess]_vars
    /\ []((poseOutcome = None /\ poseCb.pc = "idle") => pose_guess = None)

\* The second dispatch handed the worker the Pose of the first result, which
\* had failed the validity check
C32_Witness ==
    /\ pose_estimator_pool.tasks # <<>>
    /\ pose_estimator_pool.tasks[1].job = 2
    /\ pose_estimator_pool.tasks[1].pose_guess # None
    /\ poseOutcome # None
    /\ poseOutcome.job = 1
    /\ poseOutcome.kind = "invalid"
    /\ pose_estimator_pool.tasks[1].pose_guess = poseOutcome.pose

\* C33: the region of a map request dispatched by a timer tick is centred
\* on the projected field-of-view center when gimbal projection is enabled
\* and _guess_fov_center returns a point, and on the vehicle's global
\* position when the mode is disabled or the projection is none.
C33_CandidateCenter ==
    [][(mainPc = "idle" /\ wms_pool'.count > wms_pool.count)
         => LET center == wms_pool'.tasks[Len(wms_pool'.tasks)].bounds.center
                projected == GuessFovCenter(VehiclePosition)
            IN  /\ VehiclePosition # None
                /\ (gimbal_projection /\ projected # None)
                      => center = projected
                /\ (~gimbal_projection \/ projected = None)
                      => center = VehiclePosition.xy]_vars

\* With gimbal projection enabled and the gimbal 30 degrees off nadir a
\* request was just dispatched for a region centred on the vehicle, because
\* the field of view could not be projected
C33_Witness ==
    /\ mainPc = "wms_query"
    /\ gimbal_projection
    /\ bridge.gimbal_set_attitude # None
    /\ bridge.gimbal_set_attitude.pitch = -60
    /\ GuessFovCenter(VehiclePosition) = None
    /\ mainLocal.geobbox.center = bridge.global_position
    /\ wms_pool.tasks[Len(wms_pool.tasks)].bounds = mainLocal.geobbox

\* C34: when a synchronized time exists and the camera dimensions are
\* declared, the handling of a frame whose shape differs from the declared
\* dimensions ends with an assertion error raised out of the handler, and
\* it dispatches nothing and records nothing.
C34_FrameShapeMismatchRaises ==
    [][\A frame_dim \in FrameDims :
          (/\ ImageRawCallback(frame_dim)
           /\ bridge.synchronized_time # None
           /\ ImgDim # None
           /\ frame_dim # ImgDim)
          => (/\ mainPc' = "raised"
              /\ pose_estimator_pool' = pose_estimator_pool
              /\ pose_estimation_query' = pose_estimation_query
              /\ map_input_data' = map_input_data
              /\ mainLocal' = mainLocal)]_vars

\* The handler raised in a state where a frame of the declared shape would
\* have been dispatched
C34_Witness ==
    /\ mainPc = "raised"
    /\ bridge.synchronized_time # None
    /\ ImgDim # None
    /\ ShouldEstimate
    /\ pose_estimator_pool.count = 0
    /\ wms_pool.tasks = <<>>
    /\ mainLocal = None

\* C35: a map update delay of 0 is rejected like a negative one: the
\* constructor raises, there is no timer, and no request is dispatched.
C35_ZeroDelayRejected ==
    lifecycle.update_delay <= 0
       => /\ lifecycle.map_update_timer = "none"
          /\ mainPc = "raised"
          /\ wms_pool = EmptyPool

C37_NoRequestWithoutGimbalAttitude ==
    /\ []((/\ gimbal_projection
            /\ ~static_camera
            /\ bridge.gimbal_set_attitude = None
            /\ VehiclePosition # None)
            => (/\ ~ShouldRequestNewMap(MapCandidate)
                /\ MapCandidate.center = VehiclePosition.xy))
    /\ [][(/\ gimbal_projection
            /\ ~static_camera
            /\ bridge.gimbal_set_attitude = None)
             => (/\ wms_pool'.count = wms_pool.count
                 /\ wms_pool'.tasks = wms_pool.tasks
                 /\ mainPc' = mainPc)]_vars

\* Everything a first map request needs is there except the gimbal set
\* attitude
C37_Witness ==
    /\ gimbal_projection
    /\ ~static_camera
    /\ bridge.gimbal_set_attitude = None
    /\ mainPc = "idle"
    /\ TimerFires
    /\ VehiclePosition # None
    /\ MapSizeWithPadding # None
    /\ map_data = None
    /\ wms_query = None
    /\ wms_pool.count = 0

\* C38: in every state where a frame would pass the time, shape and camera
\* checks and _should_estimate is true, the snapshot of _estimation_inputs
\* is there with a camera yaw; the handling of a frame in such a state hands
\* exactly one task with that snapshot to the pool, and the next step of
\* the handler records the query of that task.
C38_SnapshotAvailable ==
    /\ []((/\ bridge.synchronized_time # None
            /\ bridge.camera_data # None
            /\ ShouldEstimate)
            => LET snapshot == EstimationInputs(pose_estimator_pool.count + 1)
               IN  /\ snapshot # None
                   /\ snapshot.contextual_map_data.map_data = map_data
                   /\ snapshot.contextual_map_data.rotation
                         = IF static_camera THEN bridge.attitude.yaw
                           ELSE bridge.gimbal_set_attitude.yaw)
    /\ [][(/\ ImageRawCallback(ImgDim)
            /\ bridge.synchronized_time # None
            /\ bridge.camera_data # None
            /\ ShouldEstimate)
             => LET job == pose_estimator_pool.count + 1
                    snapshot == EstimationInputs(job)
                IN  /\ pose_estimator_pool'.count = job
                    /\ Len(pose_estimator_pool'.tasks)
                          = Len(pose_estimator_pool.tasks) + 1
                    /\ pose_estimator_pool'.tasks[Len(pose_estimator_pool'.tasks)]
                          .input_data = snapshot.input_data
                    /\ mainPc' = "pose_estimation_query"
                    /\ mainLocal'.result = job
                    /\ mainLocal'.input_data = snapshot.input_data
                    /\ mainLocal'.image_pair.ref
                          = snapshot.contextual_map_data]_vars
    /\ [][(mainPc = "pose_estimation_query" /\ mainPc' # mainPc)
             => (mainPc' = "idle" /\ pose_estimation_query' = mainLocal)]_vars

\* A static camera's frame was dispatched without any gimbal attitude, and
\* its query was recorded
C38_Witness ==
    /\ static_camera
    /\ bridge.gimbal_set_attitude = None
    /\ mainPc = "idle"
    /\ pose_estimation_query # None
    /\ pose_estimation_query.result = 1
    /\ pose_estimation_query.image_pair.ref.rotation = bridge.attitude.yaw
    /\ pose_estimator_pool.count = 1

\* C39: for poses with equal camera intrinsics, pose1 @ pose2 has the
\* rotation pose1.r . pose2.r, the translation pose1.t + pose1.r . pose2.t,
\* the query image of pose1 and the reference of pose2.
C39_PoseComposition ==
    (/\ matmul # None
     /\ matmul.result # None
     /\ matmul.self.image_pair.img.k = matmul.pose.image_pair.img.k
     /\ matmul.result.kind = "pose")
    => /\ matmul.result.pose.r = MatMul(matmul.self.r, matmul.pose.r)
       /\ matmul.result.pose.t
             = VecAdd(matmul.self.t, MatVec(matmul.self.r, matmul.pose.t))
       /\ matmul.result.pose.image_pair.img = matmul.self.image_pair.img
       /\ matmul.result.pose.image_pair.ref = matmul.pose.image_pair.ref

====
